---- MODULE Spec2Model ----
(***************************************************************************)
(* Model of the stpeterinchains "refresh" cloud function: tweets of a few  *)
(* Twitter collections are decoded (YAML), transformed into records,       *)
(* hashed per collection, and the generated content is committed to GitHub *)
(* when a collection's digest changed.                                     *)
(*                                                                         *)
(* Strings are sequences of tokens.  A tweet text is a sequence of:        *)
(*   "T"  the line  title: A                                               *)
(*   "S"  the line  sub: x                                                 *)
(*   "D"  the key   desc:   (its scalar value is the value tokens after it)*)
(*   "E"  the line  times: [{day: d, time: t}]                             *)
(*   "e"  the line  times: [{day: d}]          (time missing)              *)
(*   "g"  the line  times: [{time: t}]         (day missing)               *)
(*   "F"  the line  times: [{day: d, time: t}, {day: d}]                   *)
(*   "B"  the line  date: d                                                *)
(*   "L"  the key   link:   (its scalar value is the value tokens after it)*)
(*   "I"  the line  inserts: [{title: i, link: U}]                         *)
(*   "i"  the line  inserts: [{title: i, link: w}]   (link is no URL)      *)
(*   "j"  the line  inserts: [{link: U}]             (title missing)       *)
(*   "J"  the line  inserts: [{title: i, link: U}, {title: i, link: w}]    *)
(*   "w", "v"  words;  "_"  white space;  "s"  a shortened link (t.co);    *)
(*   "U"  an expanded absolute URL;  "!"  text no YAML decoder accepts.    *)
(***************************************************************************)
EXTENDS Integers, Sequences, FiniteSets, TLC

\* ------------------------------------------------------------------ bounds

\* Longest timeline of a collection in the per-post specifications.
MaxPosts == 3

\* Longest timeline of a collection in the two-run digest specification.
MaxDigestPosts == 2

\* ------------------------------------------------------------ JS values

\* undefined / null / '' of a string-valued field: all falsy.
Empty == <<>>

\* The tweetId of a descriptor that was given no tweet id (undefined).
UndefinedId == 0

\* null for lastNonContinuationElement; otherwise it is the index, in the
\* dataset, of the record object it refers to.
Null == 0

KeyTokens ==
  {"T", "S", "D", "E", "e", "g", "F", "B", "L", "I", "i", "j", "J"}

ValueTokens == {"w", "v", "_", "s", "U"}

\* Keys whose scalar value is spelled out by the value tokens after them.
ScalarKeys == {"D", "L"}

Truthy(s) == s # Empty

\* String.prototype.trim
RECURSIVE TrimStart(_)
TrimStart(s) ==
  IF s # <<>> /\ Head(s) = "_" THEN TrimStart(Tail(s)) ELSE s

RECURSIVE TrimEnd(_)
TrimEnd(s) ==
  IF s # <<>> /\ s[Len(s)] = "_" THEN TrimEnd(SubSeq(s, 1, Len(s) - 1)) ELSE s

Trim(s) == TrimEnd(TrimStart(s))

\* Whether sub occurs in text at position i.
OccursAt(text, sub, i) ==
  /\ i >= 1
  /\ i + Len(sub) - 1 <= Len(text)
  /\ SubSeq(text, i, i + Len(sub) - 1) = sub

Includes(text, sub) == \E i \in 1..Len(text) : OccursAt(text, sub, i)

\* String.prototype.replace(string, string): the first occurrence only.
Replace(text, linkShortened, linkExpanded) ==
  IF ~Includes(text, linkShortened) THEN text
  ELSE LET i == CHOOSE k \in 1..Len(text) :
                  /\ OccursAt(text, linkShortened, k)
                  /\ \A j \in 1..(k - 1) : ~OccursAt(text, linkShortened, j)
       IN  SubSeq(text, 1, i - 1) \o linkExpanded
             \o SubSeq(text, i + Len(linkShortened), Len(text))

\* The loop over tweetLinks: one replace per link, in order.
RECURSIVE ExpandLinks(_, _)
ExpandLinks(tweetText, tweetLinks) ==
  IF tweetLinks = <<>> THEN tweetText
  ELSE ExpandLinks(
         Replace(tweetText, Head(tweetLinks).url, Head(tweetLinks).expanded_url),
         Tail(tweetLinks))

\* Mutant of ValidURL: new URL never throws.
ValidURLAlways(link) == TRUE

\* new URL(link) does not throw: link is one absolute URL.
ValidURL(link) == link = <<"U">> \/ link = <<"s">>

\* ------------------------------------------------------------ js-yaml

\* The mapping key a key token spells.
KeyName(tok) ==
  CASE tok = "T" -> "title"
    [] tok = "S" -> "sub"
    [] tok = "D" -> "desc"
    [] tok \in {"E", "e", "g", "F"} -> "times"
    [] tok = "B" -> "date"
    [] tok = "L" -> "link"
    [] tok \in {"I", "i", "j", "J"} -> "inserts"
    [] OTHER -> "none"

HasKey(text, tok) == \E k \in 1..Len(text) : text[k] = tok

\* The value tokens that directly follow position k.
RECURSIVE ScalarFrom(_, _)
ScalarFrom(text, k) ==
  IF k <= Len(text) /\ text[k] \in ValueTokens
  THEN <<text[k]>> \o ScalarFrom(text, k + 1)
  ELSE <<>>

\* The scalar value of the (only) occurrence of a scalar key.
ScalarOf(text, tok) ==
  LET k == CHOOSE j \in 1..Len(text) : text[j] = tok
  IN  ScalarFrom(text, k + 1)

\* The key token that owns position k: the nearest key token before it.
OwnerOf(text, k) ==
  IF \E j \in 1..(k - 1) : text[j] \in KeyTokens
  THEN LET j == CHOOSE i \in 1..(k - 1) :
                  /\ text[i] \in KeyTokens
                  /\ \A m \in (i + 1)..(k - 1) : text[m] \notin KeyTokens
       IN  text[j]
  ELSE "none"

\* Texts the decoder rejects with a YAMLException: undecodable characters,
\* a duplicated mapping key, or scalar text where the grammar allows none.
Malformed(text) ==
  \/ HasKey(text, "!")
  \/ \E j, k \in 1..Len(text) :
       /\ j < k
       /\ text[j] \in KeyTokens /\ text[k] \in KeyTokens
       /\ KeyName(text[j]) = KeyName(text[k])
  \/ /\ \E k \in 1..Len(text) : text[k] \in KeyTokens
     /\ \E k \in 1..Len(text) :
          /\ text[k] \in ValueTokens
          /\ OwnerOf(text, k) \notin ScalarKeys

\* A string-valued property of the decoded mapping:
\* undefined (key absent), null (key with no value) or a string.
Field(text, tok) ==
  IF ~HasKey(text, tok) THEN [kind |-> "undefined", val |-> Empty]
  ELSE IF ScalarOf(text, tok) = <<>> THEN [kind |-> "null", val |-> Empty]
  ELSE [kind |-> "string", val |-> ScalarOf(text, tok)]

\* Where the decoder gives up on a malformed text: the end of the shortest
\* prefix it cannot accept.
MarkPosition(text) ==
  CHOOSE k \in 1..Len(text) :
    /\ Malformed(SubSeq(text, 1, k))
    /\ \A j \in 1..(k - 1) : ~Malformed(SubSeq(text, 1, j))

\* The YAMLException a malformed text is rejected with: its reason, and its
\* mark, the place in the text where the decoder gave up.
YAMLException(text) ==
  [name    |-> "YAMLException",
   message |-> "bad YAML",
   reason  |-> IF text[MarkPosition(text)] = "!"
                 THEN "unexpected character"
               ELSE IF text[MarkPosition(text)] \in KeyTokens
                 THEN "duplicated mapping key"
               ELSE "bad indentation of a mapping entry",
   mark    |-> [buffer |-> text, position |-> MarkPosition(text)]]

\* yamlSafeLoad(text, { schema : yamlFailsafeSchema }): throws a
\* YAMLException, or returns undefined (empty text), a string (a plain
\* scalar) or a mapping of strings, sequences and mappings.
yamlSafeLoad(text) ==
  IF Malformed(text)
  THEN [threw |-> TRUE, error |-> YAMLException(text)]
  ELSE IF text = <<>>
  THEN [threw |-> FALSE, kind |-> "undefined"]
  ELSE IF \A k \in 1..Len(text) : text[k] \in ValueTokens
  THEN [threw |-> FALSE, kind |-> "string"]
  ELSE [threw   |-> FALSE,
        kind    |-> "mapping",
        title   |-> IF HasKey(text, "T") THEN <<"A">> ELSE Empty,
        sub     |-> IF HasKey(text, "S") THEN <<"x">> ELSE Empty,
        desc    |-> Field(text, "D"),
        times   |-> IF HasKey(text, "E")
                      THEN << [day |-> <<"d">>, time |-> <<"t">>] >>
                    ELSE IF HasKey(text, "e")
                      THEN << [day |-> <<"d">>, time |-> Empty] >>
                    ELSE IF HasKey(text, "g")
                      THEN << [day |-> Empty, time |-> <<"t">>] >>
                    ELSE IF HasKey(text, "F")
                      THEN << [day |-> <<"d">>, time |-> <<"t">>],
                              [day |-> <<"d">>, time |-> Empty] >>
                    ELSE <<>>,
        date    |-> IF HasKey(text, "B") THEN <<"d">> ELSE Empty,
        link    |-> Field(text, "L"),
        inserts |-> IF HasKey(text, "I")
                      THEN << [title |-> <<"i">>, link |-> <<"U">>] >>
                    ELSE IF HasKey(text, "i")
                      THEN << [title |-> <<"i">>, link |-> <<"w">>] >>
                    ELSE IF HasKey(text, "j")
                      THEN << [title |-> Empty, link |-> <<"U">>] >>
                    ELSE IF HasKey(text, "J")
                      THEN << [title |-> <<"i">>, link |-> <<"U">>],
                              [title |-> <<"i">>, link |-> <<"w">>] >>
                    ELSE <<>>]

\* A property of the destructured document; a string document has none.
Prop(loaded, name) ==
  IF loaded.kind = "mapping" THEN loaded[name] ELSE Empty

StrProp(loaded, name) ==
  IF loaded.kind = "mapping" THEN loaded[name]
  ELSE [kind |-> "undefined", val |-> Empty]

\* --------------------------------------------------------- transforms

\* null as the element or the error descriptor of a transform result.
NoElement == [isNull |-> TRUE]

NoError == [isNull |-> TRUE]

TypeError(message) == [name |-> "TypeError", message |-> message]

Error(message) == [name |-> "Error", message |-> message]

\* Mutant of prepare: every error that is no YAMLException is 'Unexpected'.
prepareNoTypeError(error, tweetId, heap) ==
  [element             |-> NoElement,
   lastNonContinuation |-> Null,
   errorDescriptor     |->
     [error   |-> IF error.name = "YAMLException" THEN "Invalid YAML"
                  ELSE "Unexpected error",
      type    |-> error.name,
      reason  |-> error.message,
      tweetId |-> tweetId],
   heap                |-> heap]

\* Mutant of prepare: the catch hands the error on to the caller.
prepareRethrows(error, tweetId, heap) ==
  [threw |-> TRUE, error |-> error]

\* Mutant of prepare: a YAMLException is described like any other error,
\* by its message and without its mark.
prepareMessageOnly(error, tweetId, heap) ==
  [element             |-> NoElement,
   lastNonContinuation |-> Null,
   errorDescriptor     |->
     [error   |-> IF error.name = "YAMLException" THEN "Invalid YAML"
                  ELSE IF error.name = "TypeError" THEN "Invalid structure"
                  ELSE "Unexpected error",
      type    |-> error.name,
      reason  |-> error.message,
      tweetId |-> tweetId],
   heap                |-> heap]

\* prepare(error, tweetId): the error result of a transform.
prepare(error, tweetId, heap) ==
  LET descriptor ==
        IF error.name = "YAMLException"
        THEN [error   |-> "Invalid YAML",
              type    |-> error.name,
              reason  |-> error.reason,
              mark    |-> error.mark,
              tweetId |-> tweetId]
        ELSE IF error.name = "TypeError"
        THEN [error   |-> "Invalid structure",
              type    |-> error.name,
              reason  |-> error.message,
              tweetId |-> tweetId]
        ELSE [error   |-> "Unexpected error",
              type    |-> error.name,
              reason  |-> error.message,
              tweetId |-> tweetId]
  IN  [element             |-> NoElement,
       lastNonContinuation |-> Null,
       errorDescriptor     |-> descriptor,
       heap                |-> heap]

\* Mutant of Separator: a single line break.
SeparatorOneBreak(lastDescriptive, descriptive) ==
  IF Truthy(descriptive) THEN <<"\n">> ELSE <<>>

\* The separator handleContinuation puts before the continuation's text:
\* chosen on the continuation's descriptive alone.
Separator(lastDescriptive, descriptive) ==
  IF Truthy(descriptive) THEN <<"\n", "\n">> ELSE <<>>

\* Mutant of handleContinuation: the missing primary is thrown as a TypeError.
handleContinuationTypeError(lastNonContinuation, descriptive, heap) ==
  IF lastNonContinuation # Null
  THEN [threw  |-> FALSE,
        result |->
          [element             |-> [isNull |-> TRUE],
           lastNonContinuation |-> lastNonContinuation,
           errorDescriptor     |-> [isNull |-> TRUE],
           heap                |->
             [heap EXCEPT ![lastNonContinuation].descriptive =
                @ \o Separator(@, descriptive) \o descriptive]]]
  ELSE [threw |-> TRUE,
        error |-> [name    |-> "TypeError",
                   message |-> "Continuation tweet with no primary"]]

\* Mutant of handleContinuation: null is returned as lastNonContinuation.
handleContinuationDropsLast(lastNonContinuation, descriptive, heap) ==
  IF lastNonContinuation # Null
  THEN [threw  |-> FALSE,
        result |->
          [element             |-> [isNull |-> TRUE],
           lastNonContinuation |-> Null,
           errorDescriptor     |-> [isNull |-> TRUE],
           heap                |->
             [heap EXCEPT ![lastNonContinuation].descriptive =
                @ \o Separator(@, descriptive) \o descriptive]]]
  ELSE [threw |-> TRUE,
        error |-> [name    |-> "Error",
                   message |-> "Continuation tweet with no primary"]]

\* handleContinuation(lastNonContinuation, descriptive): appends to the
\* descriptive of the record lastNonContinuation refers to, in place.
handleContinuation(lastNonContinuation, descriptive, heap) ==
  IF lastNonContinuation # Null
  THEN [threw  |-> FALSE,
        result |->
          [element             |-> NoElement,
           lastNonContinuation |-> lastNonContinuation,
           errorDescriptor     |-> NoError,
           heap                |->
             [heap EXCEPT ![lastNonContinuation].descriptive =
                @ \o Separator(@, descriptive) \o descriptive]]]
  ELSE [threw |-> TRUE,
        error |-> Error("Continuation tweet with no primary")]

\* Mutant of Primary: lastNonContinuation stays with the first record.
PrimaryKeepsFirst(record, heap) ==
  [element             |-> record,
   lastNonContinuation |-> 1,
   errorDescriptor     |-> [isNull |-> TRUE],
   heap                |-> heap]

\* Mutant of Primary: the record comes with an error descriptor as well.
PrimaryWithError(record, heap) ==
  [element             |-> record,
   lastNonContinuation |-> Len(heap) + 1,
   errorDescriptor     |-> [error   |-> "Unexpected error",
                            type    |-> "Error",
                            reason  |-> "record",
                            tweetId |-> UndefinedId],
   heap                |-> heap]

\* A new record: the element and the object lastNonContinuation refers to
\* once the loop has pushed it.
Primary(record, heap) ==
  [element             |-> record,
   lastNonContinuation |-> Len(heap) + 1,
   errorDescriptor     |-> NoError,
   heap                |-> heap]

announcementsTransform(tweetId, tweetText, lastNonContinuationAnnouncement, heap) ==
  LET announcementDocument == yamlSafeLoad(tweetText) IN
  IF announcementDocument.threw
    THEN prepare(announcementDocument.error, tweetId, heap)
  ELSE IF announcementDocument.kind = "undefined"
    THEN prepare(TypeError("Cannot destructure undefined"), tweetId, heap)
  ELSE IF StrProp(announcementDocument, "desc").kind = "null"
    THEN prepare(TypeError("Cannot read property trim of null"), tweetId, heap)
  ELSE
    LET title        == Prop(announcementDocument, "title")
        subtitle     == Prop(announcementDocument, "sub")
        descriptive  == Trim(StrProp(announcementDocument, "desc").val)
        continuation == ~Truthy(title) /\ Truthy(descriptive)
    IN  IF ~continuation
        THEN IF ~Truthy(title)
             THEN prepare(TypeError("Title missing"), tweetId, heap)
             ELSE Primary([title       |-> title,
                           subtitle    |-> subtitle,
                           descriptive |-> descriptive], heap)
        ELSE LET handled == handleContinuation(
                              lastNonContinuationAnnouncement, descriptive, heap)
             IN  IF handled.threw
                 THEN prepare(handled.error, tweetId, heap)
                 ELSE handled.result

eventsTransform(tweetId, tweetText, lastNonContinuationEvent, heap) ==
  LET eventDocument == yamlSafeLoad(tweetText) IN
  IF eventDocument.threw
    THEN prepare(eventDocument.error, tweetId, heap)
  ELSE IF eventDocument.kind = "undefined"
    THEN prepare(TypeError("Cannot destructure undefined"), tweetId, heap)
  ELSE IF StrProp(eventDocument, "desc").kind = "null"
    THEN prepare(TypeError("Cannot read property trim of null"), tweetId, heap)
  ELSE
    LET title        == Prop(eventDocument, "title")
        subtitle     == Prop(eventDocument, "sub")
        times        == Prop(eventDocument, "times")
        descriptive  == Trim(StrProp(eventDocument, "desc").val)
        continuation == ~Truthy(title) /\ Truthy(descriptive)
    IN  IF ~continuation
        THEN IF ~Truthy(title)
             THEN prepare(TypeError("Title missing"), tweetId, heap)
             ELSE IF \E k \in 1..Len(times) :
                       ~Truthy(times[k].day) \/ ~Truthy(times[k].time)
             THEN prepare(TypeError("Day/date or time missing"), tweetId, heap)
             ELSE Primary([title       |-> title,
                           subtitle    |-> subtitle,
                           times       |-> times,
                           descriptive |-> descriptive], heap)
        ELSE LET handled == handleContinuation(
                              lastNonContinuationEvent, descriptive, heap)
             IN  IF handled.threw
                 THEN prepare(handled.error, tweetId, heap)
                 ELSE handled.result

\* Mutant of Bulletin: the bulletin is returned as lastNonContinuation too.
BulletinAsLast(bulletin, heap) ==
  [element             |-> bulletin,
   lastNonContinuation |-> Len(heap) + 1,
   errorDescriptor     |-> [isNull |-> TRUE],
   heap                |-> heap]

\* return [ bulletin, null, null ]: a bulletin is never lastNonContinuation.
Bulletin(bulletin, heap) ==
  [element             |-> bulletin,
   lastNonContinuation |-> Null,
   errorDescriptor     |-> NoError,
   heap                |-> heap]

\* bulletinsTransform's body up to its catch: the result, or the error thrown.
bulletinsTry(tweetText, heap) ==
  LET bulletinDocument == yamlSafeLoad(tweetText) IN
  IF bulletinDocument.threw
    THEN [threw |-> TRUE, error |-> bulletinDocument.error]
  ELSE IF bulletinDocument.kind = "undefined"
    THEN [threw |-> TRUE, error |-> TypeError("Cannot destructure undefined")]
  ELSE
    LET date     == Prop(bulletinDocument, "date")
        title    == Prop(bulletinDocument, "title")
        subtitle == Prop(bulletinDocument, "sub")
        link     == StrProp(bulletinDocument, "link")
        inserts  == Prop(bulletinDocument, "inserts")
    IN  IF ~Truthy(date) \/ ~Truthy(title)
          THEN [threw |-> TRUE,
                error |-> TypeError("Bulletin date or title missing")]
        ELSE IF link.kind # "string" \/ ~ValidURL(Trim(link.val))
          THEN [threw |-> TRUE,
                error |-> TypeError("Bulletin link missing or invalid")]
        ELSE IF \E k \in 1..Len(inserts) : ~Truthy(inserts[k].title)
          THEN [threw |-> TRUE, error |-> TypeError("Insert title missing")]
        ELSE IF \E k \in 1..Len(inserts) : ~ValidURL(inserts[k].link)
          THEN [threw |-> TRUE,
                error |-> TypeError("Insert link missing or invalid")]
        ELSE [threw  |-> FALSE,
              result |-> Bulletin([date     |-> date,
                                   title    |-> title,
                                   subtitle |-> subtitle,
                                   link     |-> link.val,
                                   inserts  |-> inserts], heap)]

\* bulletinsTransform of the four-collection revision: its catch calls
\* prepare(error) with no tweet id.
bulletinsTransform(tweetId, tweetText, lastNonContinuationBulletin, heap) ==
  LET tried == bulletinsTry(tweetText, heap) IN
  IF tried.threw THEN prepare(tried.error, UndefinedId, heap)
  ELSE tried.result

\* bulletinsTransform of index.js: its catch builds the descriptor inline
\* and sets descriptor.tweetId = tweetId.
bulletinsTransformIndex(tweetId, tweetText, lastNonContinuationBulletin, heap) ==
  LET tried == bulletinsTry(tweetText, heap) IN
  IF tried.threw THEN prepare(tried.error, tweetId, heap)
  ELSE tried.result

\* The transforms of the YAML revisions, by the name the loop is given.
Transforms ==
  {"announcementsTransform", "eventsTransform", "bulletinsTransform",
   "bulletinsTransformIndex"}

Transform(transform, tweetId, tweetText, lastNonContinuationElement, heap) ==
  CASE transform = "announcementsTransform" ->
         announcementsTransform(tweetId, tweetText, lastNonContinuationElement, heap)
    [] transform = "eventsTransform" ->
         eventsTransform(tweetId, tweetText, lastNonContinuationElement, heap)
    [] transform = "bulletinsTransform" ->
         bulletinsTransform(tweetId, tweetText, lastNonContinuationElement, heap)
    [] transform = "bulletinsTransformIndex" ->
         bulletinsTransformIndex(tweetId, tweetText, lastNonContinuationElement, heap)

\* ------------------------------------------------------------- hashing

\* createHash('md5'): the bytes fed so far and the number of update calls.
\* The hash is taken to be injective on the byte stream it is fed.
createHash == [stream |-> <<>>, updates |-> 0]

\* hash.update(data)
HashUpdate(hash, data) ==
  [stream |-> hash.stream \o data, updates |-> hash.updates + 1]

\* hash.digest('hex')
HashDigest(hash) == hash.stream

\* ----------------------------------------------------- collection loop

\* The state of one collection's pass when its loop starts.
CollectionStart ==
  [dataset                    |-> <<>>,
   errors                     |-> <<>>,
   hash                       |-> createHash,
   element                    |-> NoElement,
   lastNonContinuationElement |-> Null,
   errorDescriptor            |-> NoError]

\* Mutant of Push: the element is put in front.
PushFront(array, element) == <<element>> \o array

\* Array.prototype.push: the element is put at the end.
Push(array, element) == Append(array, element)

\* Mutant of AssignLast: a null from the transform leaves the variable as
\* it was.
AssignLastUnlessNull(lastNonContinuationElement, returned) ==
  IF returned = Null THEN lastNonContinuationElement ELSE returned

\* The destructuring assignment of the transform's second component to
\* lastNonContinuationElement.
AssignLast(lastNonContinuationElement, returned) == returned

\* Mutant of HashInput: the text with its links expanded.
HashInputExpanded(tweetText, tweetTextExpandedLinks) == tweetTextExpandedLinks

\* What the loop feeds the hash for a tweet: its raw text.
HashInput(tweetText, tweetTextExpandedLinks) == tweetText

\* Mutant of ProcessTweet: a failed tweet is skipped before hash.update.
ProcessTweetSkipFailed(state, transform, tweetId, tweets) ==
  LET tweetText == tweets[tweetId].full_text
      tweetLinks == tweets[tweetId].urls
      tweetTextExpandedLinks == ExpandLinks(tweetText, tweetLinks)
      result == Transform(transform, tweetId, tweetTextExpandedLinks,
                          state.lastNonContinuationElement, state.dataset)
  IN  [dataset |->
         IF result.element # NoElement
         THEN Push(result.heap, result.element)
         ELSE result.heap,
       errors |->
         IF result.errorDescriptor # NoError
         THEN Push(state.errors, result.errorDescriptor)
         ELSE state.errors,
       hash |->
         IF result.errorDescriptor # NoError
         THEN state.hash
         ELSE HashUpdate(state.hash, tweetText),
       element |-> result.element,
       lastNonContinuationElement |->
         AssignLast(state.lastNonContinuationElement,
                    result.lastNonContinuation),
       errorDescriptor |-> result.errorDescriptor]

\* The body of the loop over the timeline, for one tweet id.
ProcessTweet(state, transform, tweetId, tweets) ==
  LET tweetText == tweets[tweetId].full_text
      tweetLinks == tweets[tweetId].urls
      tweetTextExpandedLinks == ExpandLinks(tweetText, tweetLinks)
      result == Transform(transform, tweetId, tweetTextExpandedLinks,
                          state.lastNonContinuationElement, state.dataset)
  IN  [dataset |->
         IF result.element # NoElement
         THEN Push(result.heap, result.element)
         ELSE result.heap,
       errors |->
         IF result.errorDescriptor # NoError
         THEN Push(state.errors, result.errorDescriptor)
         ELSE state.errors,
       hash |-> HashUpdate(state.hash, HashInput(tweetText, tweetTextExpandedLinks)),
       element |-> result.element,
       lastNonContinuationElement |->
         AssignLast(state.lastNonContinuationElement,
                    result.lastNonContinuation),
       errorDescriptor |-> result.errorDescriptor]

\* The whole loop over a timeline, from position k on: the state after
\* tweet k is the state tweet k + 1 is processed in.
RECURSIVE ProcessFrom(_, _, _, _, _)
ProcessFrom(state, transform, timeline, tweets, k) ==
  IF k > Len(timeline) THEN state
  ELSE CHOOSE final \in
         { ProcessFrom(next, transform, timeline, tweets, k + 1) :
             next \in { ProcessTweet(state, transform, timeline[k], tweets) } } :
         TRUE

ProcessCollection(transform, timeline, tweets) ==
  ProcessFrom(CollectionStart, transform, timeline, tweets, 1)

\* ------------------------------------------------------------ tweets

Link(short, expanded) == [url |-> short, expanded_url |-> expanded]

Tweet(text, links) == [full_text |-> text, urls |-> links]

\* The tweets a collection's timeline is drawn from.
TweetPool ==
  { Tweet(<<"T", "D", "w">>, <<>>),            \* title and desc
    Tweet(<<"T">>, <<>>),                      \* title only
    Tweet(<<"T", "D", "_">>, <<>>),            \* title, white-space desc
    Tweet(<<"D", "_", "v">>, <<>>),            \* desc only: a continuation
    Tweet(<<"D", "s">>, <<Link(<<"s">>, <<"U">>)>>),
    Tweet(<<"!">>, <<>>),                      \* undecodable
    Tweet(<<"T", "e">>, <<>>),                 \* an event lacking a time
    Tweet(<<"B", "T", "L", "s">>, <<Link(<<"s">>, <<"U">>)>>),
    Tweet(<<"B", "T", "L", "w">>, <<>>) }      \* a bulletin, link no URL

\* The tweets the two-run digest specification draws from: a text that is
\* the two texts before it end to end, one raw text with and without its
\* link expansion, and a text that equals that expansion.
DigestPool ==
  { Tweet(<<"T">>, <<>>),
    Tweet(<<"D", "s">>, <<>>),
    Tweet(<<"T", "D", "s">>, <<>>),
    Tweet(<<"D", "s">>, <<Link(<<"s">>, <<"U">>)>>),
    Tweet(<<"D", "U">>, <<>>) }

\* The tweets lookup tables of at most n tweets; tweet ids are 1..n.
TweetTables(pool, n) == UNION { [1..k -> pool] : k \in 0..n }

\* response.timeline of a lookup table: its ids in timeline order.
TimelineOf(tweets) == [k \in 1..Len(tweets) |-> k]

\* ------------------------------------------------------------- state

VARIABLES
  runs,     \* the collection passes under way (one collection each)
  pass,     \* per pass: its transform, timeline, tweets and loop state
  rev,      \* the deployed revision of the agent
  twitter,  \* per collection: the tweets it holds now
  github,   \* the generated content file and who committed it
  inv       \* per invocation of the agent: its position and what it holds

passVars == <<runs, pass>>

agentVars == <<rev, twitter, github, inv>>

vars == <<runs, pass, rev, twitter, github, inv>>

\* A pass about to start its loop.
PassStart(transform, tweets) ==
  [transform |-> transform,
   timeline  |-> TimelineOf(tweets),
   tweets    |-> tweets,
   pos       |-> 0,
   before    |-> CollectionStart,
   state     |-> CollectionStart,
   finalized |-> FALSE,
   digest    |-> <<>>]

\* One iteration of the loop over the timeline.
ProcessNextTweet(r) ==
  /\ ~pass[r].finalized
  /\ pass[r].pos < Len(pass[r].timeline)
  /\ pass' = [pass EXCEPT
       ![r].pos    = @ + 1,
       ![r].before = pass[r].state,
       ![r].state  = ProcessTweet(pass[r].state, pass[r].transform,
                                  pass[r].timeline[pass[r].pos + 1],
                                  pass[r].tweets)]
  /\ UNCHANGED <<runs, agentVars>>

\* The loop has ended: hash.digest('hex').
FinalizeDigest(r) ==
  /\ ~pass[r].finalized
  /\ pass[r].pos = Len(pass[r].timeline)
  /\ pass' = [pass EXCEPT
       ![r].finalized = TRUE,
       ![r].digest    = HashDigest(pass[r].state.hash)]
  /\ UNCHANGED <<runs, agentVars>>

\* No invocation of the agent is under way (the per-pass specifications).
AgentIdle ==
  /\ rev = "four"
  /\ twitter = <<>>
  /\ github = <<>>
  /\ inv = <<>>

\* One collection's pass, over any timeline of at most MaxPosts tweets.
InitPass ==
  /\ AgentIdle
  /\ runs = {1}
  /\ pass \in [runs -> { PassStart(t, tw) :
                           t \in Transforms,
                           tw \in TweetTables(TweetPool, MaxPosts) }]

NextPass ==
  \/ \E r \in runs : ProcessNextTweet(r)
  \/ \E r \in runs : FinalizeDigest(r)

SpecPass == InitPass /\ [][NextPass]_vars

\* Two passes side by side, each over its own timeline: two collections, or
\* one collection on two runs.
InitDigest ==
  /\ AgentIdle
  /\ runs = {1, 2}
  /\ pass \in
       { p \in [runs -> { PassStart(t, tw) :
                            t \in {"announcementsTransform", "bulletinsTransform"},
                            tw \in TweetTables(DigestPool, MaxDigestPosts) }] :
           p[1].transform = "announcementsTransform" }

SpecDigest == InitDigest /\ [][NextPass]_vars

\* Longest timeline in the specification of the documents' structure.
MaxStructurePosts == 2

\* Documents of every structure the transforms tell apart, and texts in
\* which a shortened link occurs twice.
StructurePool ==
  { Tweet(<<>>, <<>>),                          \* empty text
    Tweet(<<"w">>, <<>>),                       \* a plain scalar
    Tweet(<<"!">>, <<>>),                       \* undecodable
    Tweet(<<"S">>, <<>>),                       \* neither title nor desc
    Tweet(<<"T", "E">>, <<>>),                  \* an event with its time
    Tweet(<<"T", "e">>, <<>>),                  \* its time missing
    Tweet(<<"T", "g">>, <<>>),                  \* its day missing
    Tweet(<<"T", "F">>, <<>>),                  \* its second time incomplete
    Tweet(<<"B", "T", "L", "U">>, <<>>),        \* a bulletin
    Tweet(<<"B", "T", "L", "s">>, <<Link(<<"s">>, <<"U">>)>>),
    Tweet(<<"B", "T", "L", "U", "I">>, <<>>),   \* a bulletin with an insert
    Tweet(<<"T", "L", "U">>, <<>>),             \* its date missing
    Tweet(<<"B", "L", "U">>, <<>>),             \* its title missing
    Tweet(<<"B", "T">>, <<>>),                  \* its link missing
    Tweet(<<"B", "T", "L", "w">>, <<>>),        \* its link no URL
    Tweet(<<"B", "T", "L", "U", "i">>, <<>>),   \* its insert's link no URL
    Tweet(<<"B", "T", "L", "U", "J">>, <<>>),   \* its second insert's link
    Tweet(<<"B", "T", "L", "U", "j">>, <<>>),   \* its insert's title missing
    Tweet(<<"D", "s", "s">>, <<Link(<<"s">>, <<"U">>)>>),
    Tweet(<<"D", "s", "s">>, <<Link(<<"s">>, <<"U">>), Link(<<"s">>, <<"U">>)>>) }

\* One collection's pass over documents of every structure.
InitStructure ==
  /\ AgentIdle
  /\ runs = {1}
  /\ pass \in [runs -> { PassStart(t, tw) :
                           t \in Transforms,
                           tw \in TweetTables(StructurePool, MaxStructurePosts) }]

SpecStructure == InitStructure /\ [][NextPass]_vars

\* ------------------------------------------------ one transform call

\* The texts a transform is called with: the tweets' texts with their
\* links expanded, and a desc key with no value, alone and under a title.
TransformTexts ==
  { ExpandLinks(tweet.full_text, tweet.urls) :
      tweet \in StructurePool \cup TweetPool }
    \cup { <<"D">>, <<"T", "D">> }

\* The records lastNonContinuation refers to: what the continuing
\* transforms made of a title, alone, with a desc, and with a time.
PrimaryRecords(transform) ==
  IF transform \in {"announcementsTransform", "eventsTransform"}
  THEN { Transform(transform, 1, text, Null, <<>>).element :
           text \in { <<"T">>, <<"T", "D", "w">>, <<"T", "E">> } }
  ELSE {}

\* A call of a transform: its arguments, lastNonContinuation being null or
\* the record the dataset holds, and what it returned, once it has.
TransformCalls ==
  { [transform                  |-> transform,
     tweetId                    |-> 1,
     tweetText                  |-> text,
     lastNonContinuationElement |-> Null,
     heap                       |-> <<>>,
     returned                   |-> <<>>] :
      transform \in Transforms, text \in TransformTexts }
    \cup
  UNION { { [transform                  |-> transform,
             tweetId                    |-> 2,
             tweetText                  |-> text,
             lastNonContinuationElement |-> 1,
             heap                       |-> <<record>>,
             returned                   |-> <<>>] :
              text \in TransformTexts, record \in PrimaryRecords(transform) } :
          transform \in Transforms }

\* The transform is called and returns.
CallTransform(r) ==
  /\ pass[r].returned = <<>>
  /\ pass' = [pass EXCEPT ![r].returned =
       << Transform(pass[r].transform, pass[r].tweetId, pass[r].tweetText,
                    pass[r].lastNonContinuationElement, pass[r].heap) >>]
  /\ UNCHANGED <<runs, agentVars>>

InitTransform ==
  /\ AgentIdle
  /\ runs = {1}
  /\ pass \in [runs -> TransformCalls]

NextTransform == \E r \in runs : CallTransform(r)

\* One call of one transform, on any text and any lastNonContinuation.
SpecTransform == InitTransform /\ [][NextTransform]_vars

\* -------------------------------------------------------------- agent

\* Tweets posted to the collections while the invocations run.
MaxTweets == 1

\* Two invocations of the agent, one after the other or overlapping.
Invocations == {1, 2}

\* The tweets posted to the collections in the agent specification.
AgentPool ==
  { Tweet(<<"T">>, <<>>), Tweet(<<"D", "w">>, <<>>) }

\* The revisions of the agent: "three" is index.js (regular events, special
\* events, bulletins); "four" adds the announcements and the dry run.
Revisions == {"three", "four"}

\* The collections in the order of the agent's loop and of the digests array.
Collections(revision) ==
  IF revision = "four"
  THEN <<"announcements", "regularEvents", "specialEvents", "bulletins">>
  ELSE <<"regularEvents", "specialEvents", "bulletins">>

CollectionNames(revision) ==
  { Collections(revision)[k] : k \in 1..Len(Collections(revision)) }

\* The transform the loop gives each collection.
TransformOf(revision, collection) ==
  CASE collection = "announcements" -> "announcementsTransform"
    [] collection \in {"regularEvents", "specialEvents"} -> "eventsTransform"
    [] collection = "bulletins" ->
         IF revision = "four" THEN "bulletinsTransform"
         ELSE "bulletinsTransformIndex"

\* JSON.stringify / JSON.parse of the generated content.
JsonStringify(value) == [json |-> value]

JsonParse(text) == text.json

\* Buffer.from(json).toString('base64') / Buffer.from(base64, 'base64').
Base64Encode(text) == [base64 |-> text]

Base64Decode(encoded) == encoded.base64

\* The blob SHA-1 GitHub reports for a file: it names the file's content.
BlobSha(file) == [sha1 |-> file]

\* A digest position the previously published array does not have.
UndefinedDigest == <<"undefined">>

\* The texts a dryRun attribute is given as.
OptionTexts ==
  {"true", "false", "1", "0", "null", "\"yes\"", "\"\"", "{}", "yes", ""}

\* The messages the function is triggered with: no message, a message
\* without attributes, attributes without dryRun, attributes with dryRun.
Messages ==
  { [kind |-> "undefined"],
    [kind |-> "object", attributes |-> [kind |-> "undefined"]],
    [kind |-> "object", attributes |-> [kind |-> "object", dryRun |-> <<>>]] }
  \cup { [kind |-> "object",
          attributes |-> [kind |-> "object", dryRun |-> <<text>>]] :
         text \in OptionTexts }

\* JSON.parse of an option text: the value's type and truthiness, or a
\* SyntaxError.
JsonParseOption(text) ==
  CASE text = "true"    -> [threw |-> FALSE, type |-> "boolean", truthy |-> TRUE]
    [] text = "false"   -> [threw |-> FALSE, type |-> "boolean", truthy |-> FALSE]
    [] text = "1"       -> [threw |-> FALSE, type |-> "number", truthy |-> TRUE]
    [] text = "0"       -> [threw |-> FALSE, type |-> "number", truthy |-> FALSE]
    [] text = "null"    -> [threw |-> FALSE, type |-> "null", truthy |-> FALSE]
    [] text = "\"yes\"" -> [threw |-> FALSE, type |-> "string", truthy |-> TRUE]
    [] text = "\"\""    -> [threw |-> FALSE, type |-> "string", truthy |-> FALSE]
    [] text = "{}"      -> [threw |-> FALSE, type |-> "object", truthy |-> TRUE]
    [] OTHER            -> [threw |-> TRUE, type |-> "SyntaxError", truthy |-> FALSE]

\* Mutant of DryRunOption: only the boolean true sets the option.
DryRunOptionBooleanOnly(revision, message) ==
  /\ revision = "four"
  /\ message.kind = "object"
  /\ message.attributes.kind = "object"
  /\ message.attributes.dryRun = <<"true">>

\* The message's dry run option: !! JSON.parse(dryRunOption), where
\* dryRunOption is attributes.dryRun or false when it is absent; the
\* default false is kept when the destructuring or the parse throws.
\* index.js has no such option.
DryRunOption(revision, message) ==
  /\ revision = "four"
  /\ message.kind = "object"
  /\ message.attributes.kind = "object"
  /\ \E dryRunOption \in { IF message.attributes.dryRun = <<>> THEN "false"
                           ELSE message.attributes.dryRun[1] } :
       /\ ~JsonParseOption(dryRunOption).threw
       /\ JsonParseOption(dryRunOption).truthy

\* Mutant of PreviousDigests: the digests array is destructured in the
\* opposite order.
PreviousDigestsReversed(generatedContent, n) ==
  [k \in 1..n |->
     IF n + 1 - k <= Len(generatedContent.digests)
     THEN generatedContent.digests[n + 1 - k]
     ELSE UndefinedDigest]

\* { digests : [ ... ] } = generatedContent, destructured by position.
PreviousDigests(generatedContent, n) ==
  [k \in 1..n |->
     IF k <= Len(generatedContent.digests)
     THEN generatedContent.digests[k]
     ELSE UndefinedDigest]

\* The ...CollectionUpdated flags, by position.
Updated(previous, computed) ==
  [k \in 1..Len(computed) |-> previous[k] # computed[k]]

\* Mutant of CollectionsUpdated: the last collection is left out.
CollectionsUpdatedButLast(previous, computed) ==
  \E k \in 1..(Len(computed) - 1) : previous[k] # computed[k]

\* collectionsUpdated: some collection's digest differs.
CollectionsUpdated(previous, computed) ==
  \E k \in 1..Len(computed) : Updated(previous, computed)[k]

\* Mutant of Assembles: the dry run is not considered.
AssemblesOnUpdatesOnly(revision, collectionsUpdated, dryRun) ==
  collectionsUpdated

\* Whether the agent assembles the generated content at all.
Assembles(revision, collectionsUpdated, dryRun) ==
  IF revision = "four" THEN collectionsUpdated \/ dryRun
  ELSE collectionsUpdated

\* Mutant of DigestsArray: the first two digests change places.
DigestsArraySwapped(computed) ==
  [k \in 1..Len(computed) |->
     IF k = 1 THEN computed[2] ELSE IF k = 2 THEN computed[1] ELSE computed[k]]

\* The digests array of the generated content.
DigestsArray(computed) == computed

\* Mutant of GeneratedContent: the error lists are left empty.
GeneratedContentNoErrors(revision, results, computed) ==
  [datasets |-> [k \in 1..Len(Collections(revision)) |-> results[k].dataset],
   digests  |-> computed,
   errors   |-> [k \in 1..Len(Collections(revision)) |-> <<>>]]

\* computedGeneratedContent: every dataset, the digests, every error list.
GeneratedContent(revision, results, computed) ==
  [datasets |-> [k \in 1..Len(Collections(revision)) |-> results[k].dataset],
   digests  |-> DigestsArray(computed),
   errors   |-> [k \in 1..Len(Collections(revision)) |-> results[k].errors]]

\* Mutant of UpdatedCollections: each name is put in front of the list.
RECURSIVE UpdatedCollectionsUnshift(_, _, _)
UpdatedCollectionsUnshift(revision, updated, k) ==
  IF k > Len(updated) THEN <<>>
  ELSE UpdatedCollectionsUnshift(revision, updated, k + 1)
         \o (IF updated[k] THEN <<Collections(revision)[k]>> ELSE <<>>)

\* updatedCollections: the names the commit message lists.
RECURSIVE UpdatedCollections(_, _, _)
UpdatedCollections(revision, updated, k) ==
  IF k > Len(updated) THEN <<>>
  ELSE (IF updated[k] THEN <<Collections(revision)[k]>> ELSE <<>>)
         \o UpdatedCollections(revision, updated, k + 1)

\* Mutant of WriteSha: the sha of the file as it is when the write is sent.
WriteShaCurrent(read, current) == current

\* The sha the write is keyed with: the one read with the previous content.
WriteSha(read, current) == read.sha

\* The generated content file before any run: no tweets in any collection.
InitialFile(revision) ==
  Base64Encode(JsonStringify(
    [datasets |-> [k \in 1..Len(Collections(revision)) |-> <<>>],
     digests  |-> [k \in 1..Len(Collections(revision)) |-> HashDigest(createHash)],
     errors   |-> [k \in 1..Len(Collections(revision)) |-> <<>>]]))

\* The reads of the first Promise.all: the two secrets.
SecretReads == {"githubSecret", "twitterSecret"}

\* Mutant of ReadsAfterSecrets: the generated content is not asked for.
ReadsAfterSecretsNoContent(revision) == CollectionNames(revision)

\* The reads of the second Promise.all: every collection's entries and the
\* generated content.
ReadsAfterSecrets(revision) == CollectionNames(revision) \cup {"content"}

\* An invocation that has not been triggered yet.
InvocationStart(revision) ==
  [pc       |-> "idle",
   dryRun   |-> FALSE,
   issued   |-> {},
   tweets   |-> [c \in CollectionNames(revision) |-> <<>>],
   read     |-> <<>>,
   requests |-> <<>>,
   logged   |-> <<>>,
   failed   |-> "none",
   errorLog |-> <<>>,
   outcome  |-> "none"]

\* Mutant of Catch: the error is thrown on and the agent's promise rejects.
CatchRethrows(invocation, failed) ==
  [invocation EXCEPT !.pc      = "done",
                     !.outcome = "rejected",
                     !.failed  = failed]

\* Mutant of Catch: a failed write is sent once more.
CatchRetriesWrite(invocation, failed) ==
  IF failed = "write" /\ Len(invocation.requests) < 2
  THEN [invocation EXCEPT !.requests = Append(@, @[1])]
  ELSE [invocation EXCEPT !.pc       = "done",
                          !.outcome  = "error",
                          !.failed   = failed,
                          !.errorLog = Append(@, failed)]

\* The agent's catch: the error a collaborator call threw is logged and the
\* invocation ends.
Catch(invocation, failed) ==
  [invocation EXCEPT !.pc       = "done",
                     !.outcome  = "error",
                     !.failed   = failed,
                     !.errorLog = Append(@, failed)]

\* The invocation once its options are read and the secrets asked for.
Invoked(invocation, revision, message) ==
  [invocation EXCEPT !.pc     = "secrets",
                     !.dryRun = DryRunOption(revision, message),
                     !.issued = SecretReads]

\* The function is triggered: the dry run option is read off the message.
Invoke(i, message) ==
  /\ inv[i].pc = "idle"
  /\ inv' = [inv EXCEPT ![i] = Invoked(@, rev, message)]
  /\ UNCHANGED <<passVars, rev, twitter, github>>

\* Both secrets have been read: the clients are made and the second
\* Promise.all issues its reads.
AccessSecrets(i) ==
  /\ inv[i].pc = "secrets"
  /\ inv' = [inv EXCEPT ![i].pc = "reads",
                        ![i].issued = @ \cup ReadsAfterSecrets(rev)]
  /\ UNCHANGED <<passVars, rev, twitter, github>>

\* accessSecretVersion rejects for one of the secrets.
SecretFails(i) ==
  /\ inv[i].pc = "secrets"
  /\ inv' = [inv EXCEPT ![i] = Catch(@, "secrets")]
  /\ UNCHANGED <<passVars, rev, twitter, github>>

\* twitter.get of one collection answers: its timeline and tweets now.
GetCollection(i, c) ==
  /\ inv[i].pc = "reads"
  /\ c \in inv[i].issued
  /\ inv[i].tweets[c] = <<>>
  /\ inv' = [inv EXCEPT ![i].tweets[c] = <<twitter[c]>>]
  /\ UNCHANGED <<passVars, rev, twitter, github>>

\* github.repos.getContent answers: the file's content and sha now.
GetContent(i) ==
  /\ inv[i].pc = "reads"
  /\ "content" \in inv[i].issued
  /\ inv[i].read = <<>>
  /\ inv' = [inv EXCEPT ![i].read =
               << [content |-> github.file, sha |-> BlobSha(github.file)] >>]
  /\ UNCHANGED <<passVars, rev, twitter, github>>

\* The reads of the second Promise.all that have not answered yet.
PendingReads(i) ==
  { c \in CollectionNames(rev) : c \in inv[i].issued /\ inv[i].tweets[c] = <<>> }
    \cup (IF "content" \in inv[i].issued /\ inv[i].read = <<>>
          THEN {"content"} ELSE {})

\* twitter.get or getContent rejects: Promise.all rejects with it, and
\* what the other reads answered is bound to nothing.
ReadFails(i) ==
  /\ inv[i].pc = "reads"
  /\ PendingReads(i) # {}
  /\ inv' = [inv EXCEPT ![i] =
               Catch([@ EXCEPT !.tweets = InvocationStart(rev).tweets,
                               !.read = <<>>], "reads")]
  /\ UNCHANGED <<passVars, rev, twitter, github>>

\* A timeline entry whose id the lookup table has no post for.
NoTweet == [undefined |-> TRUE]

\* A post of the lookup table that carries no list of embedded links.
TweetWithoutLinks(text) == [full_text |-> text]

\* The destructuring of tweets[tweetId] and the loop over its links throw a
\* TypeError for such an entry.
LookupThrows(tweet) ==
  \/ tweet = NoTweet
  \/ "urls" \notin DOMAIN tweet

\* Mutant of Lookup: an entry that cannot be read is passed over.
LookupSkips(tweets) ==
  [threw |-> FALSE, tweets |-> SelectSeq(tweets, LAMBDA t : ~LookupThrows(t))]

\* The inner loop's reads of full_text and entities.urls, for the posts of
\* one collection: they sit outside the transform, inside the agent's try.
Lookup(tweets) ==
  IF \E k \in 1..Len(tweets) : LookupThrows(tweets[k])
  THEN [threw |-> TRUE, tweets |-> <<>>]
  ELSE [threw |-> FALSE, tweets |-> tweets]

\* The posts of every collection, as the inner loop reads them.
Lookups(revision, tweets) ==
  [c \in CollectionNames(revision) |-> Lookup(tweets[c][1])]

\* The loop over the collections: every collection's pass, in order.
ProcessCollections(revision, tweets) ==
  [k \in 1..Len(Collections(revision)) |->
     ProcessCollection(TransformOf(revision, Collections(revision)[k]),
                       TimelineOf(tweets[Collections(revision)[k]][1]),
                       tweets[Collections(revision)[k]][1])]

\* The ...TimelineComputedDigest values, by position.
ComputedDigests(results) ==
  [k \in 1..Len(results) |-> HashDigest(results[k].hash)]

\* The request createOrUpdateFileContents is called with.
WriteRequest(revision, previous, computed, content, read, current) ==
  [message |-> UpdatedCollections(revision, Updated(previous, computed), 1),
   content |-> Base64Encode(JsonStringify(content)),
   sha     |-> WriteSha(read, current)]

\* All reads are in: every collection is processed, the digests are
\* compared, and the content is written, logged (dry run) or dropped.
Generate(i) ==
  /\ inv[i].pc = "reads"
  /\ inv[i].read # <<>>
  /\ \A c \in CollectionNames(rev) : inv[i].tweets[c] # <<>>
  /\ \E previous \in
          { PreviousDigests(JsonParse(Base64Decode(inv[i].read[1].content)),
                            Len(Collections(rev))) } :
     \E looked \in { Lookups(rev, inv[i].tweets) } :
     IF \E c \in CollectionNames(rev) : looked[c].threw
     THEN inv' = [inv EXCEPT ![i] = Catch(@, "lookup")]
     ELSE
     \E results \in
          { ProcessCollections(rev, [c \in CollectionNames(rev) |->
                                      <<looked[c].tweets>>]) } :
     \E computed \in { ComputedDigests(results) } :
     \E content \in { GeneratedContent(rev, results, computed) } :
       IF Assembles(rev, CollectionsUpdated(previous, computed), inv[i].dryRun)
       THEN IF ~inv[i].dryRun
            THEN inv' = [inv EXCEPT
                   ![i].pc = "writing",
                   ![i].requests = Append(@,
                     WriteRequest(rev, previous, computed, content,
                                  inv[i].read[1], BlobSha(github.file)))]
            ELSE inv' = [inv EXCEPT
                   ![i].pc = "done",
                   ![i].outcome = "dryRun",
                   ![i].logged = Append(@, JsonStringify(content))]
       ELSE inv' = [inv EXCEPT
              ![i].pc = "done",
              ![i].outcome = "noUpdates"]
  /\ UNCHANGED <<passVars, rev, twitter, github>>

\* createOrUpdateFileContents answers: the sha names the current file, the
\* content is committed.
FileCommitted(i) ==
  /\ inv[i].pc = "writing"
  /\ inv[i].requests[1].sha = BlobSha(github.file)
  /\ github' = [file    |-> inv[i].requests[1].content,
                commits |-> Append(github.commits, i)]
  /\ inv' = [inv EXCEPT ![i].pc = "done", ![i].outcome = "committed"]
  /\ UNCHANGED <<passVars, rev, twitter>>

\* createOrUpdateFileContents answers: the sha is stale; the error is
\* caught and logged by the agent's catch.
FileRejected(i) ==
  /\ inv[i].pc = "writing"
  /\ inv[i].requests[Len(inv[i].requests)].sha # BlobSha(github.file)
  /\ inv' = [inv EXCEPT ![i] = Catch(@, "write")]
  /\ UNCHANGED <<passVars, rev, twitter, github>>

\* createOrUpdateFileContents rejects for another reason: nothing is
\* committed.
FileUnavailable(i) ==
  /\ inv[i].pc = "writing"
  /\ inv' = [inv EXCEPT ![i] = Catch(@, "write")]
  /\ UNCHANGED <<passVars, rev, twitter, github>>

\* The number of tweets in all collections.
RECURSIVE TweetCount(_, _)
TweetCount(revision, k) ==
  IF k = 0 THEN 0
  ELSE Len(twitter[Collections(revision)[k]]) + TweetCount(revision, k - 1)

\* Staff add a tweet to a collection.
PostTweet(c, tweet) ==
  /\ TweetCount(rev, Len(Collections(rev))) < MaxTweets
  /\ twitter' = [twitter EXCEPT ![c] = Append(@, tweet)]
  /\ UNCHANGED <<passVars, rev, github, inv>>

Init ==
  /\ runs = {}
  /\ pass = <<>>
  /\ rev \in Revisions
  /\ twitter = [c \in CollectionNames(rev) |-> <<>>]
  /\ github = [file |-> InitialFile(rev), commits |-> <<>>]
  /\ inv = [i \in Invocations |-> InvocationStart(rev)]

Next ==
  \/ \E i \in Invocations, message \in Messages : Invoke(i, message)
  \/ \E i \in Invocations : AccessSecrets(i)
  \/ \E i \in Invocations, c \in CollectionNames(rev) : GetCollection(i, c)
  \/ \E i \in Invocations : GetContent(i)
  \/ \E i \in Invocations : Generate(i)
  \/ \E i \in Invocations : FileCommitted(i)
  \/ \E i \in Invocations : FileRejected(i)
  \/ \E i \in Invocations : FileUnavailable(i)
  \/ \E i \in Invocations : SecretFails(i)
  \/ \E i \in Invocations : ReadFails(i)
  \/ \E c \in CollectionNames(rev), tweet \in AgentPool : PostTweet(c, tweet)

Spec == Init /\ [][Next]_vars

\* A step of invocation i that is not its triggering: a collaborator
\* answers or rejects, or the agent computes on.
AgentStep(i) ==
  \/ AccessSecrets(i)
  \/ SecretFails(i)
  \/ \E c \in CollectionNames(rev) : GetCollection(i, c)
  \/ GetContent(i)
  \/ ReadFails(i)
  \/ Generate(i)
  \/ FileCommitted(i)
  \/ FileRejected(i)
  \/ FileUnavailable(i)

\* ----------------------------------------- one invocation to its end

MaxLiveTweets == 1

\* The invocation followed to its end.
LiveInvocation == 1

\* Sequence a is the beginning of sequence b.
IsHead(a, b) == Len(a) <= Len(b) /\ SubSeq(b, 1, Len(a)) = a

\* The number of tweets in the first k collections of the tables.
RECURSIVE TweetsIn(_, _, _)
TweetsIn(revision, tables, k) ==
  IF k = 0 THEN 0
  ELSE Len(tables[Collections(revision)[k]]) + TweetsIn(revision, tables, k - 1)

\* The collections as the invocation may find them: any timelines of at
\* most MaxLiveTweets tweets in all.
LiveTimelines(revision) ==
  { tables \in [CollectionNames(revision) ->
                  TweetTables(AgentPool, MaxLiveTweets)] :
      TweetsIn(revision, tables, Len(Collections(revision))) <= MaxLiveTweets }

\* Any timelines, and the published content of empty collections.
InitLive ==
  /\ runs = {}
  /\ pass = <<>>
  /\ rev \in Revisions
  /\ twitter \in LiveTimelines(rev)
  /\ github = [file |-> InitialFile(rev), commits |-> <<>>]
  /\ inv = [i \in Invocations |-> InvocationStart(rev)]

NextLive ==
  \/ \E message \in Messages : Invoke(LiveInvocation, message)
  \/ AccessSecrets(LiveInvocation)
  \/ SecretFails(LiveInvocation)
  \/ \E c \in CollectionNames(rev) : GetCollection(LiveInvocation, c)
  \/ GetContent(LiveInvocation)
  \/ ReadFails(LiveInvocation)
  \/ Generate(LiveInvocation)
  \/ FileCommitted(LiveInvocation)
  \/ FileUnavailable(LiveInvocation)

\* One invocation under collaborators that answer every call, one way or
\* the other, and a runtime that runs every continuation that is ready.
SpecLive ==
  InitLive /\ [][NextLive]_vars /\ WF_vars(AgentStep(LiveInvocation))

\* --------------------------- one invocation after an earlier publication

MaxPublishTweets == 2

\* The collections as the invocation finds them: any timelines of at most
\* MaxPublishTweets tweets in all.
PublishTimelines(revision) ==
  { tables \in [CollectionNames(revision) ->
                  TweetTables(AgentPool, MaxPublishTweets)] :
      TweetsIn(revision, tables, Len(Collections(revision)))
        <= MaxPublishTweets }

\* The collections as an earlier invocation found them: of every timeline,
\* its tweets up to some point.
EarlierTimelines(revision, tables) ==
  { earlier \in PublishTimelines(revision) :
      \A c \in CollectionNames(revision) : IsHead(earlier[c], tables[c]) }

\* The hash of a timeline after its first k tweets: one update per tweet
\* with its raw text.
RECURSIVE TimelineHash(_, _)
TimelineHash(tweets, k) ==
  IF k = 0 THEN createHash
  ELSE HashUpdate(TimelineHash(tweets, k - 1), tweets[k].full_text)

\* The published content an invocation reads, as far as it reads it: the
\* digests array, here that of the tables.
PublishedFor(revision, tables) ==
  Base64Encode(JsonStringify(
    [datasets |-> [k \in 1..Len(Collections(revision)) |-> <<>>],
     digests  |-> [k \in 1..Len(Collections(revision)) |->
                     HashDigest(TimelineHash(
                       tables[Collections(revision)[k]],
                       Len(tables[Collections(revision)[k]])))],
     errors   |-> [k \in 1..Len(Collections(revision)) |-> <<>>]]))

\* Any timelines, and the content an earlier invocation published when the
\* timelines were shorter or the same.
InitPublish ==
  /\ runs = {}
  /\ pass = <<>>
  /\ rev \in Revisions
  /\ twitter \in PublishTimelines(rev)
  /\ github \in { [file |-> PublishedFor(rev, earlier), commits |-> <<>>] :
                    earlier \in EarlierTimelines(rev, twitter) }
  /\ inv = [i \in Invocations |-> InvocationStart(rev)]

\* One invocation that finds collections with several tweets and a content
\* published before.
SpecPublish == InitPublish /\ [][NextLive]_vars

\* ------------------------------------------------ the message's options

\* The invocation with the message it was triggered with kept beside it.
WithMessage(invocation, message) ==
  [f \in DOMAIN invocation \cup {"message"} |->
     IF f = "message" THEN message ELSE invocation[f]]

\* The function is triggered; the message stays in scope.
InvokeWithMessage(i, message) ==
  /\ inv[i].pc = "idle"
  /\ inv' = [inv EXCEPT ![i] = WithMessage(Invoked(@, rev, message), message)]
  /\ UNCHANGED <<passVars, rev, twitter, github>>

NextOptions ==
  \/ \E i \in Invocations, message \in Messages : InvokeWithMessage(i, message)
  \/ \E i \in Invocations : AccessSecrets(i)

\* Invocations triggered with every kind of message, up to their reads.
SpecOptions == Init /\ [][NextOptions]_vars

\* ------------------------------------------ the loop over collections

\* Tweets in all collections together in the specification of the whole loop.
MaxLoopTweets == 3

\* The tweets of the collections in the specification of the whole loop:
\* a primary, a continuation, an undecodable text.
LoopPool ==
  { Tweet(<<"T", "D", "w">>, <<>>),
    Tweet(<<"D", "v">>, <<>>),
    Tweet(<<"!">>, <<>>) }

\* Mutant of LoopStart: the hash goes on from the collection before.
LoopStartKeepsHash(previous) ==
  [dataset                    |-> <<>>,
   errors                     |-> <<>>,
   hash                       |-> previous.hash,
   element                    |-> [isNull |-> TRUE],
   lastNonContinuationElement |-> Null,
   errorDescriptor            |-> [isNull |-> TRUE]]

\* Mutant of LoopStart: lastNonContinuationElement is kept from the
\* collection before.
LoopStartKeepsLast(previous) ==
  [CollectionStart EXCEPT
     !.lastNonContinuationElement = previous.lastNonContinuationElement]

\* The let at the top of the outer loop's body: element,
\* lastNonContinuationElement and errorDescriptor are null again, whatever
\* the collection before left; dataset, errors and hash are the
\* collection's own.
LoopStart(previous) == CollectionStart

\* Mutant of LoopDone: the loop over a timeline also ends at a failed tweet.
LoopDoneOrFailed(p) ==
  p.pos = Len(p.timeline) \/ p.state.errorDescriptor # NoError

\* The loop over a collection's timeline is over: the timeline is exhausted.
LoopDone(p) == p.pos = Len(p.timeline)

\* The state the collection before r left.
StateBefore(r) == IF r > 1 THEN pass[r - 1].state ELSE CollectionStart

\* One iteration of the inner loop; collection r is reached when the loops
\* of the collections before it are over.
LoopNextTweet(r) ==
  /\ \A q \in runs : q < r => LoopDone(pass[q])
  /\ ~LoopDone(pass[r])
  /\ ~pass[r].finalized
  /\ \E entry \in { IF pass[r].pos = 0 THEN LoopStart(StateBefore(r))
                    ELSE pass[r].state } :
       pass' = [pass EXCEPT
         ![r].pos    = @ + 1,
         ![r].before = entry,
         ![r].state  = ProcessTweet(entry, pass[r].transform,
                                    pass[r].timeline[pass[r].pos + 1],
                                    pass[r].tweets)]
  /\ UNCHANGED <<runs, agentVars>>

\* After the loops: every collection's hash.digest('hex'), in one statement.
ComputeDigests ==
  /\ \A r \in runs : LoopDone(pass[r]) /\ ~pass[r].finalized
  /\ pass' = [r \in runs |->
               [pass[r] EXCEPT !.finalized = TRUE,
                               !.digest = HashDigest(pass[r].state.hash)]]
  /\ UNCHANGED <<runs, agentVars>>

\* The number of tweets in the collections 1..k of the loop.
RECURSIVE LoopTweetCount(_)
LoopTweetCount(k) ==
  IF k = 0 THEN 0 ELSE Len(pass[k].tweets) + LoopTweetCount(k - 1)

\* Before the invocation: staff add a tweet to a collection.
LoopAddTweet(r, tweet) ==
  /\ \A q \in runs : pass[q].pos = 0 /\ ~pass[q].finalized
  /\ LoopTweetCount(Len(Collections(rev))) < MaxLoopTweets
  /\ pass' = [pass EXCEPT
       ![r] = PassStart(pass[r].transform, Append(pass[r].tweets, tweet))]
  /\ UNCHANGED <<runs, agentVars>>

\* The collections of one invocation, in the order of the outer loop.
InitLoop ==
  /\ rev \in Revisions
  /\ twitter = <<>>
  /\ github = <<>>
  /\ inv = <<>>
  /\ runs = 1..Len(Collections(rev))
  /\ pass = [r \in 1..Len(Collections(rev)) |->
               PassStart(TransformOf(rev, Collections(rev)[r]), <<>>)]

NextLoop ==
  \/ \E r \in runs, tweet \in LoopPool : LoopAddTweet(r, tweet)
  \/ \E r \in runs : LoopNextTweet(r)
  \/ ComputeDigests

SpecLoop == InitLoop /\ [][NextLoop]_vars

\* ------------------------------------------- properties of one pass

\* The transforms that handle continuation tweets.
ContinuingTransforms == {"announcementsTransform", "eventsTransform"}

\* The document the decoder yields for tweet k of pass r (links expanded).
Decoded(r, k) ==
  yamlSafeLoad(ExpandLinks(pass[r].tweets[pass[r].timeline[k]].full_text,
                           pass[r].tweets[pass[r].timeline[k]].urls))

\* The trimmed descriptive text of a decoded document ('' when it has none).
DescOf(doc) ==
  IF ~doc.threw /\ doc.kind = "mapping" /\ doc.desc.kind = "string"
  THEN Trim(doc.desc.val)
  ELSE <<>>

\* A document that is a primary record for the transform: it has a title
\* (and, for an event, every occurrence entry has day and time).
PrimaryPost(transform, doc) ==
  /\ ~doc.threw
  /\ doc.kind = "mapping"
  /\ doc.title # <<>>
  /\ doc.desc.kind # "null"
  /\ transform = "eventsTransform" =>
       \A k \in 1..Len(doc.times) :
         doc.times[k].day # <<>> /\ doc.times[k].time # <<>>

\* A continuation post: no title, non-empty descriptive text.
ContinuationPost(doc) ==
  /\ ~doc.threw
  /\ doc.kind = "mapping"
  /\ doc.title = <<>>
  /\ DescOf(doc) # <<>>

\* The number of records the tweets before position k produced.
RecordsBefore(r, k) ==
  Len(ProcessCollection(pass[r].transform,
                        SubSeq(pass[r].timeline, 1, k - 1),
                        pass[r].tweets).dataset)

\* Tweet k - 1 is a primary with descriptive text and tweet k, the one
\* just processed, continues it.
PrimaryThenContinuation(r) ==
  /\ pass[r].transform \in ContinuingTransforms
  /\ pass[r].pos >= 2
  /\ PrimaryPost(pass[r].transform, Decoded(r, pass[r].pos - 1))
  /\ DescOf(Decoded(r, pass[r].pos - 1)) # <<>>
  /\ ContinuationPost(Decoded(r, pass[r].pos))

\* C1: a primary post with descriptive text followed by a continuation post
\* leaves exactly one record for the pair, whose descriptive is the
\* primary's text, a blank line, and the continuation's text; the
\* continuation appends no record.
C1_ContinuationAppendsWithBlankLine ==
  \A r \in runs :
    PrimaryThenContinuation(r) =>
      LET p == pass[r]
          n == Len(p.state.dataset)
      IN  /\ n = RecordsBefore(r, p.pos - 1) + 1
          /\ n = Len(p.before.dataset)
          /\ p.state.element = NoElement
          /\ p.state.errorDescriptor = NoError
          /\ p.state.dataset[n].title = Decoded(r, p.pos - 1).title
          /\ p.state.dataset[n].descriptive =
               DescOf(Decoded(r, p.pos - 1)) \o <<"\n", "\n">>
                 \o DescOf(Decoded(r, p.pos))
          /\ \A j \in 1..(n - 1) : p.state.dataset[j] = p.before.dataset[j]

\* C1 witness: such a pair has been processed, the continuation's text
\* coming from an expanded link.
C1_Witness ==
  \E r \in runs :
    /\ PrimaryThenContinuation(r)
    /\ pass[r].pos = 3
    /\ DescOf(Decoded(r, pass[r].pos)) = <<"U">>

\* The tweet just processed is a continuation and lastNonContinuation
\* refers to a record whose descriptive is empty.
ContinuesEmptyPrimary(r) ==
  /\ pass[r].transform \in ContinuingTransforms
  /\ pass[r].pos >= 1
  /\ ContinuationPost(Decoded(r, pass[r].pos))
  /\ pass[r].before.lastNonContinuationElement # Null
  /\ pass[r].before.dataset[pass[r].before.lastNonContinuationElement]
       .descriptive = <<>>

\* C2: a continuation merged into a primary whose descriptive is empty
\* inserts no separator: the record's descriptive is then exactly the
\* continuation's trimmed text.
C2_NoSeparatorAfterEmptyPrimary ==
  \A r \in runs :
    ContinuesEmptyPrimary(r) =>
      pass[r].state.dataset[pass[r].before.lastNonContinuationElement]
        .descriptive = DescOf(Decoded(r, pass[r].pos))

\* The tweet just processed is a continuation and lastNonContinuation was null.
ContinuationWithoutPrimary(r) ==
  /\ pass[r].transform \in ContinuingTransforms
  /\ pass[r].pos >= 1
  /\ ContinuationPost(Decoded(r, pass[r].pos))
  /\ pass[r].before.lastNonContinuationElement = Null

\* C3: a continuation post processed while lastNonContinuation is null
\* yields exactly one 'Unexpected error' descriptor with reason
\* 'Continuation tweet with no primary', appends no record and leaves every
\* record of the dataset unchanged.
C3_ContinuationWithoutPrimaryIsUnexpected ==
  \A r \in runs :
    ContinuationWithoutPrimary(r) =>
      LET p == pass[r] IN
      /\ p.state.errors = Append(p.before.errors, p.state.errorDescriptor)
      /\ p.state.errorDescriptor # NoError
      /\ p.state.errorDescriptor.error = "Unexpected error"
      /\ p.state.errorDescriptor.reason = "Continuation tweet with no primary"
      /\ p.state.element = NoElement
      /\ p.state.dataset = p.before.dataset

\* C3 witness: a continuation with no primary, after a record was emitted.
C3_Witness ==
  \E r \in runs :
    /\ ContinuationWithoutPrimary(r)
    /\ pass[r].before.dataset # <<>>

\* The raw texts of the first k tweets of pass r, end to end.
RECURSIVE RawStream(_, _)
RawStream(r, k) ==
  IF k = 0 THEN <<>>
  ELSE RawStream(r, k - 1) \o pass[r].tweets[pass[r].timeline[k]].full_text

\* C6: the hash is updated exactly once per tweet, in timeline order,
\* whatever the transform returned; when the loop has ended the number of
\* updates is the length of the timeline.
C6_OneHashUpdatePerTweet ==
  \A r \in runs :
    /\ pass[r].state.hash.updates = pass[r].pos
    /\ pass[r].state.hash.stream = RawStream(r, pass[r].pos)
    /\ pass[r].finalized =>
         pass[r].state.hash.updates = Len(pass[r].timeline)

\* C6 witness: a finished loop that saw a record, a merged continuation and
\* a failed tweet.
C6_Witness ==
  \E r \in runs :
    /\ pass[r].finalized
    /\ Len(pass[r].timeline) = 3
    /\ Len(pass[r].state.dataset) = 1
    /\ Len(pass[r].state.dataset[1].descriptive) > 2
    /\ Len(pass[r].state.errors) = 1

\* ------------------------------------------ properties of two passes

\* The raw texts of a pass's timeline, in order.
RawTexts(r) ==
  [k \in 1..Len(pass[r].timeline) |->
     pass[r].tweets[pass[r].timeline[k]].full_text]

\* The texts handed to the transform, in order.
ExpandedTexts(r) ==
  [k \in 1..Len(pass[r].timeline) |->
     ExpandLinks(pass[r].tweets[pass[r].timeline[k]].full_text,
                 pass[r].tweets[pass[r].timeline[k]].urls)]

\* C4: two timelines whose sequences of raw texts differ in any way (an
\* edit, an added or removed tweet, a reordering) have different digests.
C4_DifferentTimelinesDifferentDigests ==
  \A r1, r2 \in runs :
    (/\ pass[r1].finalized
     /\ pass[r2].finalized
     /\ RawTexts(r1) # RawTexts(r2))
    => pass[r1].digest # pass[r2].digest

\* C5: the digest is a function of the sequence of raw texts alone: equal
\* raw sequences give equal digests whatever the link expansions, the
\* tweets that failed or the last primary; and after equal hash input so
\* far, tweets whose raw texts differ leave different hash input, also
\* when they expand to the same text.
C5_DigestOfRawTextsOnly ==
  \A r1, r2 \in runs :
    /\ (/\ pass[r1].finalized
        /\ pass[r2].finalized
        /\ RawTexts(r1) = RawTexts(r2))
       => pass[r1].digest = pass[r2].digest
    /\ (/\ pass[r1].pos >= 1
        /\ pass[r2].pos >= 1
        /\ pass[r1].before.hash.stream = pass[r2].before.hash.stream
        /\ RawTexts(r1)[pass[r1].pos] # RawTexts(r2)[pass[r2].pos])
       => pass[r1].state.hash.stream # pass[r2].state.hash.stream

\* C5 witness: two finished passes over the same raw texts whose link
\* expansions, failed tweets and last primary all differ.
C5_Witness ==
  /\ pass[1].finalized
  /\ pass[2].finalized
  /\ Len(pass[1].timeline) = 2
  /\ RawTexts(1) = RawTexts(2)
  /\ ExpandedTexts(1) # ExpandedTexts(2)
  /\ Len(pass[1].state.errors) # Len(pass[2].state.errors)
  /\ pass[1].state.lastNonContinuationElement
       # pass[2].state.lastNonContinuationElement

\* Two tweets with different raw texts and the same expanded text have
\* been hashed after equal input.
C5_SameExpansionReached ==
  /\ pass[1].pos >= 1
  /\ pass[2].pos >= 1
  /\ pass[1].before.hash.stream = pass[2].before.hash.stream
  /\ RawTexts(1)[pass[1].pos] # RawTexts(2)[pass[2].pos]
  /\ ExpandedTexts(1)[pass[1].pos] = ExpandedTexts(2)[pass[2].pos]

\* ---------------------------------------- properties of the agent

\* The texts of a tweets table, end to end.
RECURSIVE Flatten(_)
Flatten(tweets) ==
  IF tweets = <<>> THEN <<>>
  ELSE Head(tweets).full_text \o Flatten(Tail(tweets))

\* The digest of what invocation i fetched for the collection at position k.
FreshDigest(i, k) == Flatten(inv[i].tweets[Collections(rev)[k]][1])

\* The digest at position k of the content invocation i read.
ReadDigest(i, k) ==
  IF k <= Len(inv[i].read[1].content.base64.json.digests)
  THEN inv[i].read[1].content.base64.json.digests[k]
  ELSE UndefinedDigest

\* Invocation i has processed its collections and taken its decision.
Processed(i) ==
  /\ inv[i].pc \in {"writing", "done"}
  /\ inv[i].failed \notin {"secrets", "reads"}

\* Every digest invocation i computed equals the one it read, by position.
NoDigestChanged(i) ==
  \A k \in 1..Len(Collections(rev)) : ReadDigest(i, k) = FreshDigest(i, k)

\* The invocations whose write was committed.
Committers == { github.commits[k] : k \in 1..Len(github.commits) }

\* C7: without dry run, an invocation whose computed digests all equal the
\* previously published ones, by position, writes nothing and ends with
\* 'No collection updates'; one with a differing pair attempts exactly one
\* write.
C7_WriteOnlyWhenDigestChanged ==
  \A i \in Invocations :
    (Processed(i) /\ ~inv[i].dryRun) =>
      /\ NoDigestChanged(i) =>
           /\ inv[i].requests = <<>>
           /\ inv[i].pc = "done"
           /\ inv[i].outcome = "noUpdates"
           /\ i \notin Committers
      /\ ~NoDigestChanged(i) =>
           /\ Len(inv[i].requests) = 1
           /\ inv[i].outcome # "noUpdates"

\* C7 witness: one invocation ended with no updates, the other wrote.
C7_Witness ==
  \E i, j \in Invocations :
    /\ Processed(i) /\ ~inv[i].dryRun /\ NoDigestChanged(i)
    /\ Processed(j) /\ ~inv[j].dryRun /\ ~NoDigestChanged(j)

\* C8: a dry run never writes to the store, whether or not a digest
\* changed, and always logs the whole generated content: every dataset,
\* the computed digests and every error list.
C8_DryRunLogsAndNeverWrites ==
  \A i \in Invocations :
    inv[i].dryRun =>
      /\ inv[i].requests = <<>>
      /\ i \notin Committers
      /\ inv[i].pc # "writing"
      /\ Processed(i) =>
           /\ inv[i].outcome = "dryRun"
           /\ Len(inv[i].logged) = 1
           /\ Len(inv[i].logged[1].json.datasets) = Len(Collections(rev))
           /\ Len(inv[i].logged[1].json.errors) = Len(Collections(rev))
           /\ Len(inv[i].logged[1].json.digests) = Len(Collections(rev))
           /\ \A k \in 1..Len(Collections(rev)) :
                /\ inv[i].logged[1].json.digests[k] = FreshDigest(i, k)
                /\ inv[i].logged[1].json.datasets[k] =
                     ProcessCollections(rev, inv[i].tweets)[k].dataset
                /\ inv[i].logged[1].json.errors[k] =
                     ProcessCollections(rev, inv[i].tweets)[k].errors

\* C8 witness: a dry run that found no digest changed has logged the
\* content, with a tweet in it.
C8_Witness ==
  \E i \in Invocations :
    /\ inv[i].dryRun
    /\ Processed(i)
    /\ NoDigestChanged(i)
    /\ \E k \in 1..Len(Collections(rev)) : FreshDigest(i, k) # <<>>

\* C9: every write carries the sha its invocation read with the previous
\* content; of two invocations that read the same sha at most one commits,
\* and the one rejected as stale publishes nothing and ends in the error
\* handler.
C9_WriteKeyedByReadSha ==
  /\ \A i \in Invocations :
       /\ Len(inv[i].requests) <= 1
       /\ inv[i].requests # <<>> =>
            inv[i].requests[1].sha = inv[i].read[1].sha
       /\ (inv[i].pc = "done" /\ inv[i].requests # <<>>) =>
            /\ inv[i].outcome \in {"committed", "error"}
            /\ inv[i].outcome = "committed" <=> i \in Committers
  /\ \A i, j \in Invocations :
       (/\ i # j
        /\ inv[i].read # <<>>
        /\ inv[j].read # <<>>
        /\ inv[i].read[1].sha = inv[j].read[1].sha)
       => ~(i \in Committers /\ j \in Committers)

\* C9 witness: two invocations read the same sha and both wrote; one
\* committed, the other was rejected.
C9_Witness ==
  \E i, j \in Invocations :
    /\ inv[i].read # <<>>
    /\ inv[j].read # <<>>
    /\ inv[i].read[1].sha = inv[j].read[1].sha
    /\ inv[i].outcome = "committed"
    /\ inv[j].outcome = "error"
    /\ j \notin Committers

\* Invocations i and j fetched the same raw texts in every collection.
SameRawTexts(i, j) ==
  \A c \in CollectionNames(rev) :
    /\ Len(inv[i].tweets[c][1]) = Len(inv[j].tweets[c][1])
    /\ \A k \in 1..Len(inv[i].tweets[c][1]) :
         inv[i].tweets[c][1][k].full_text = inv[j].tweets[c][1][k].full_text

\* Invocation j read the content invocation i committed.
ReadsCommitOf(j, i) ==
  /\ inv[i].outcome = "committed"
  /\ inv[j].read # <<>>
  /\ inv[j].read[1].content = inv[i].requests[1].content

\* C10: the digests of a committed content are the digests its invocation
\* computed, so an invocation without dry run that reads that content and
\* fetches the same raw texts writes nothing.
C10_CommittedDigestsAreTheBaseline ==
  /\ \A i \in Invocations :
       (github.commits # <<>> /\ github.commits[Len(github.commits)] = i) =>
         /\ Len(github.file.base64.json.digests) = Len(Collections(rev))
         /\ \A k \in 1..Len(Collections(rev)) :
              github.file.base64.json.digests[k] = FreshDigest(i, k)
  /\ \A i, j \in Invocations :
       (/\ i # j
        /\ ReadsCommitOf(j, i)
        /\ Processed(j)
        /\ ~inv[j].dryRun
        /\ SameRawTexts(i, j))
       => /\ inv[j].requests = <<>>
          /\ inv[j].outcome = "noUpdates"

\* C10 witness: an invocation read the content another committed, fetched
\* the same raw texts, and ended with no updates.
C10_Witness ==
  \E i, j \in Invocations :
    /\ i # j
    /\ ReadsCommitOf(j, i)
    /\ Processed(j)
    /\ ~inv[j].dryRun
    /\ SameRawTexts(i, j)
    /\ \E k \in 1..Len(Collections(rev)) : FreshDigest(i, k) # <<>>

\* ------------------------- properties of the loop over collections

\* A text that is one absolute URL, white space around it aside.
AbsoluteURL(text) == Trim(text) \in { <<"U">>, <<"s">> }

\* A document that is a bulletin: date, title, a link that is a URL, and
\* every insert with a title and a link that is a URL.
BulletinPost(doc) ==
  /\ ~doc.threw
  /\ doc.kind = "mapping"
  /\ doc.date # <<>>
  /\ doc.title # <<>>
  /\ doc.link.kind = "string"
  /\ AbsoluteURL(doc.link.val)
  /\ \A k \in 1..Len(doc.inserts) :
       doc.inserts[k].title # <<>> /\ AbsoluteURL(doc.inserts[k].link)

\* Tweet k of pass r is one its transform makes a record of.
RecordPost(r, k) ==
  IF pass[r].transform \in ContinuingTransforms
  THEN PrimaryPost(pass[r].transform, Decoded(r, k))
  ELSE BulletinPost(Decoded(r, k))

\* A tweet before the one pass r just processed has failed, in its own
\* collection or in a collection before it.
FailedEarlier(r) ==
  \/ pass[r].before.errors # <<>>
  \/ \E q \in runs : q < r /\ pass[q].state.errors # <<>>

\* The tweet pass r just processed was handed to the transform and its
\* outcome appended: a record, an error, or a merge.
Handled(r) ==
  LET p == pass[r] IN
  /\ p.state.hash.updates = p.pos
  /\ RecordPost(r, p.pos) =>
       /\ p.state.element # NoElement
       /\ p.state.dataset = Append(p.before.dataset, p.state.element)
       /\ p.state.errors = p.before.errors
  /\ Decoded(r, p.pos).threw =>
       /\ p.state.errorDescriptor # NoError
       /\ p.state.errorDescriptor.error = "Invalid YAML"
       /\ p.state.errors = Append(p.before.errors, p.state.errorDescriptor)
       /\ p.state.dataset = p.before.dataset
  /\ ~RecordPost(r, p.pos) =>
       Len(p.state.dataset) = Len(p.before.dataset)

\* C11: a failed tweet never stops the loops: every later tweet of the
\* collection is handed to the transform, every later collection is
\* processed, and the digests are taken only when every timeline has been
\* gone through to its end.
C11_FailedTweetNeverStopsTheLoop ==
  \A r \in runs :
    /\ pass[r].finalized => pass[r].pos = Len(pass[r].timeline)
    /\ pass[r].pos >= 1 =>
         \A q \in runs : q < r => pass[q].pos = Len(pass[q].timeline)
    /\ (pass[r].pos >= 1 /\ FailedEarlier(r)) => Handled(r)

\* C11 witness: the digests are taken; the first tweet of a collection
\* failed, the tweet after it made a record, and a later collection made a
\* record too.
C11_Witness ==
  \E q, r \in runs :
    /\ q < r
    /\ pass[q].finalized
    /\ pass[r].finalized
    /\ Len(pass[q].timeline) = 2
    /\ Len(pass[q].state.errors) = 1
    /\ pass[q].state.errors[1].tweetId = 1
    /\ Len(pass[q].state.dataset) = 1
    /\ Len(pass[r].state.dataset) = 1

\* ----------------------------------- outcomes of the tweets of a pass

\* The tweet pass r just processed is a continuation with a primary to
\* merge into.
MergePost(r) ==
  /\ pass[r].transform \in ContinuingTransforms
  /\ ContinuationPost(Decoded(r, pass[r].pos))
  /\ pass[r].before.lastNonContinuationElement # Null

\* The tweet pass r just processed fails to parse or validate: it makes no
\* record and merges into none.
FailedPost(r) == ~RecordPost(r, pass[r].pos) /\ ~MergePost(r)

\* C12: every tweet has at most one outcome: one error descriptor is
\* appended if and only if the tweet fails to parse or validate (a
\* continuation without primary included), one record if and only if it
\* is a valid primary, never both, and nothing for a merged continuation;
\* so records plus errors never outnumber the tweets processed.
C12_AtMostOneOutcomePerTweet ==
  \A r \in runs :
    /\ Len(pass[r].state.dataset) + Len(pass[r].state.errors) <= pass[r].pos
    /\ pass[r].pos >= 1 =>
         LET p == pass[r]
             records == Len(p.state.dataset) - Len(p.before.dataset)
             errors  == Len(p.state.errors) - Len(p.before.errors)
         IN  /\ records \in {0, 1}
             /\ errors \in {0, 1}
             /\ records + errors <= 1
             /\ errors = 1 <=> FailedPost(r)
             /\ records = 1 <=> RecordPost(r, p.pos)
             /\ MergePost(r) => records = 0 /\ errors = 0
             /\ SubSeq(p.state.errors, 1, Len(p.before.errors)) = p.before.errors
             /\ errors = 1 =>
                  p.state.errors[Len(p.state.errors)] = p.state.errorDescriptor
             /\ records = 1 =>
                  p.state.dataset[Len(p.state.dataset)] = p.state.element

\* C12 witness: three tweets processed: a record, a failed tweet, and a
\* merged continuation among them.
C12_Witness ==
  \E r \in runs :
    /\ pass[r].pos = 3
    /\ ~pass[r].finalized
    /\ MergePost(r)
    /\ Len(pass[r].state.dataset) = 1
    /\ Len(pass[r].state.errors) = 1

\* C13: every error descriptor appended to a collection's error list
\* carries the id of the tweet that failed: the timeline entry being
\* processed when the descriptor was made.
C13_ErrorCarriesTweetId ==
  \A r \in runs :
    (pass[r].pos >= 1 /\ pass[r].state.errorDescriptor # NoError) =>
      /\ pass[r].state.errors[Len(pass[r].state.errors)].tweetId
           = pass[r].timeline[pass[r].pos]
      /\ pass[r].state.errors[Len(pass[r].state.errors)].tweetId
           # UndefinedId

\* The descriptors of the transforms other than the four-collection
\* revision's bulletinsTransform do carry the tweet id.
C13_OtherTransformsCarryTweetId ==
  \A r \in runs :
    (/\ pass[r].pos >= 1
     /\ pass[r].state.errorDescriptor # NoError
     /\ pass[r].transform # "bulletinsTransform") =>
      pass[r].state.errors[Len(pass[r].state.errors)].tweetId
        = pass[r].timeline[pass[r].pos]

\* ------------------------------------- properties of the structure

\* The title of a decoded document ('' when it has none).
TitleOf(doc) == IF doc.kind = "mapping" THEN doc.title ELSE <<>>

\* The document of the tweet pass r just processed was decoded and lacks
\* what its kind requires: an announcement or event with neither title nor
\* descriptive text, an event with an occurrence lacking day or time, a
\* bulletin lacking date or title, or with a link or an insert's link that
\* is no URL, or with an insert lacking its title.
StructureFailure(r) ==
  LET doc == Decoded(r, pass[r].pos) IN
  /\ ~doc.threw
  /\ IF pass[r].transform \in ContinuingTransforms
     THEN \/ TitleOf(doc) = <<>> /\ DescOf(doc) = <<>>
          \/ /\ pass[r].transform = "eventsTransform"
             /\ doc.kind = "mapping"
             /\ doc.title # <<>>
             /\ \E k \in 1..Len(doc.times) :
                  doc.times[k].day = <<>> \/ doc.times[k].time = <<>>
     ELSE \/ doc.kind # "mapping"
          \/ doc.date = <<>>
          \/ doc.title = <<>>
          \/ doc.link.kind # "string"
          \/ ~AbsoluteURL(doc.link.val)
          \/ \E k \in 1..Len(doc.inserts) :
               \/ doc.inserts[k].title = <<>>
               \/ ~AbsoluteURL(doc.inserts[k].link)

\* C14: a tweet whose document decodes but lacks a required field yields
\* exactly one 'Invalid structure' error, never 'Invalid YAML', and no
\* record, whichever field or list entry is the invalid one.
C14_MissingFieldIsInvalidStructure ==
  \A r \in runs :
    (pass[r].pos >= 1 /\ StructureFailure(r)) =>
      LET p == pass[r] IN
      /\ p.state.errorDescriptor # NoError
      /\ p.state.errorDescriptor.error = "Invalid structure"
      /\ p.state.errorDescriptor.type = "TypeError"
      /\ p.state.errors = Append(p.before.errors, p.state.errorDescriptor)
      /\ p.state.element = NoElement
      /\ p.state.dataset = p.before.dataset

\* C14 witness: a bulletin whose second insert has a link that is no URL
\* has been processed after a valid bulletin.
C14_Witness ==
  \E r \in runs :
    /\ pass[r].transform = "bulletinsTransform"
    /\ pass[r].pos = 2
    /\ StructureFailure(r)
    /\ Len(pass[r].before.dataset) = 1
    /\ Decoded(r, 2).kind = "mapping"
    /\ Len(Decoded(r, 2).inserts) = 2
    /\ AbsoluteURL(Decoded(r, 2).inserts[1].link)

\* A record that has what its kind requires.
ValidRecord(transform, record) ==
  IF transform = "announcementsTransform"
  THEN record.title # <<>>
  ELSE IF transform = "eventsTransform"
  THEN /\ record.title # <<>>
       /\ \A k \in 1..Len(record.times) :
            record.times[k].day # <<>> /\ record.times[k].time # <<>>
  ELSE /\ record.date # <<>>
       /\ record.title # <<>>
       /\ AbsoluteURL(record.link)
       /\ \A k \in 1..Len(record.inserts) :
            /\ record.inserts[k].title # <<>>
            /\ AbsoluteURL(record.inserts[k].link)

\* C15: parsing fails closed: at every point of a pass every record in the
\* dataset, and the element just returned, has what its kind requires; no
\* partially validated record is ever appended.
C15_EveryRecordIsValid ==
  \A r \in runs :
    /\ \A k \in 1..Len(pass[r].state.dataset) :
         ValidRecord(pass[r].transform, pass[r].state.dataset[k])
    /\ pass[r].state.element # NoElement =>
         ValidRecord(pass[r].transform, pass[r].state.element)
    /\ pass[r].pos >= 1 =>
         (Len(pass[r].state.dataset) > Len(pass[r].before.dataset)
            => RecordPost(r, pass[r].pos))

\* C15 witness: a bulletin with an insert is in the dataset and a bulletin
\* with an invalid insert was kept out of it.
C15_Witness ==
  \E r \in runs :
    /\ pass[r].finalized
    /\ pass[r].transform = "bulletinsTransformIndex"
    /\ Len(pass[r].state.dataset) = 1
    /\ Len(pass[r].state.dataset[1].inserts) = 1
    /\ Len(pass[r].state.errors) = 1
    /\ pass[r].state.errors[1].reason = "Insert link missing or invalid"

\* ------------------------------------ continuations and collections

\* The first tweet of collection r has been processed and is a continuation.
ContinuationFirst(r) ==
  /\ pass[r].transform \in ContinuingTransforms
  /\ pass[r].pos = 1
  /\ ContinuationPost(Decoded(r, 1))

\* C16: lastNonContinuationElement is null when a collection's loop
\* starts, so a continuation that is the first tweet of a collection
\* yields an error, also when the collection before ended with a primary
\* record; that collection's records stay as its own loop left them.
C16_ContinuationsStayInTheirCollection ==
  \A r \in runs :
    /\ pass[r].pos = 1 => pass[r].before.lastNonContinuationElement = Null
    /\ ContinuationFirst(r) =>
         /\ pass[r].state.errorDescriptor # NoError
         /\ pass[r].state.errorDescriptor.error = "Unexpected error"
         /\ pass[r].state.errorDescriptor.reason
              = "Continuation tweet with no primary"
         /\ pass[r].state.dataset = <<>>
         /\ Len(pass[r].state.errors) = 1
    /\ pass[r].pos >= 1 =>
         \A q \in runs :
           q < r =>
             pass[q].state.dataset
               = ProcessCollection(pass[q].transform, pass[q].timeline,
                                   pass[q].tweets).dataset

\* C16 witness: the collection before ended with a primary record as its
\* last primary, and the first tweet of the next is a continuation.
C16_Witness ==
  \E r \in runs :
    /\ r > 1
    /\ ContinuationFirst(r)
    /\ pass[r - 1].transform \in ContinuingTransforms
    /\ pass[r - 1].state.lastNonContinuationElement # Null
    /\ Len(pass[r - 1].state.dataset) = 1
    /\ pass[r - 1].state.dataset[1].descriptive = <<"w">>

\* ------------------------------------------------- link expansion

\* The text the transform was given for the tweet pass r just processed.
TextHandedOver(r) ==
  ExpandLinks(pass[r].tweets[pass[r].timeline[pass[r].pos]].full_text,
              pass[r].tweets[pass[r].timeline[pass[r].pos]].urls)

\* The links listed with the tweet pass r just processed.
LinksListed(r) == pass[r].tweets[pass[r].timeline[pass[r].pos]].urls

\* C17: every occurrence of each listed link's shortened form is replaced
\* by its expanded URL before the transform is called, also when the same
\* shortened form occurs more than once: the text handed over contains no
\* listed shortened form any more.
C17_EveryOccurrenceExpanded ==
  \A r \in runs :
    pass[r].pos >= 1 =>
      \A k \in 1..Len(LinksListed(r)) :
        ~Includes(TextHandedOver(r), LinksListed(r)[k].url)

\* The number of occurrences of sub in text.
Occurrences(text, sub) ==
  Cardinality({ i \in 1..Len(text) : OccursAt(text, sub, i) })

\* When a shortened form is listed as often as it occurs, none is left.
C17_ListedPerOccurrenceExpanded ==
  \A r \in runs :
    (/\ pass[r].pos >= 1
     /\ \A k \in 1..Len(LinksListed(r)) :
          Occurrences(pass[r].tweets[pass[r].timeline[pass[r].pos]].full_text,
                      LinksListed(r)[k].url)
            <= Cardinality({ j \in 1..Len(LinksListed(r)) :
                               LinksListed(r)[j].url = LinksListed(r)[k].url }))
    => \A k \in 1..Len(LinksListed(r)) :
         ~Includes(TextHandedOver(r), LinksListed(r)[k].url)

\* ------------------------------------------- collaborator failures

\* C18: when a collaborator call fails (a secret, a collection's entries,
\* the read of the generated content, or its write) the invocation commits
\* nothing: no write is sent after a failed read, none again after a
\* failed write, the error is logged once by the agent's catch, and the
\* invocation ends.
C18_CollaboratorFailureEndsInvocation ==
  \A i \in Invocations :
    /\ inv[i].failed = "none" => inv[i].errorLog = <<>>
    /\ inv[i].failed # "none" =>
         /\ inv[i].pc = "done"
         /\ inv[i].outcome = "error"
         /\ inv[i].errorLog = << inv[i].failed >>
         /\ inv[i].logged = <<>>
         /\ i \notin Committers
         /\ inv[i].failed \in {"secrets", "reads"} => inv[i].requests = <<>>
         /\ inv[i].failed = "write" => Len(inv[i].requests) = 1
    /\ github.commits = <<>> => github.file = InitialFile(rev)

\* C18 witness: one invocation ended on a failed read while tweets were
\* there to publish, the other on a failed write.
C18_Witness ==
  \E i, j \in Invocations :
    /\ inv[i].failed = "reads"
    /\ inv[j].failed = "write"
    /\ github.commits = <<>>
    /\ \E c \in CollectionNames(rev) : twitter[c] # <<>>

\* --------------------------------------------------- order of reads

\* Every read of a collaborator an invocation makes.
AllReads ==
  {"githubSecret", "twitterSecret", "content"} \cup CollectionNames(rev)

\* Every read of invocation i has answered.
AllReadsAnswered(i) ==
  /\ inv[i].read # <<>>
  /\ \A c \in CollectionNames(rev) : inv[i].tweets[c] # <<>>

\* C19 as stated: all reads of an invocation (both secrets, every
\* collection's entries, the generated content) are issued together, none
\* waiting for another, and nothing is processed before all have answered.
C19_AllReadsIssuedTogether ==
  \A i \in Invocations :
    /\ inv[i].issued # {} => inv[i].issued = AllReads
    /\ Processed(i) => AllReadsAnswered(i)

\* C19 amended: the reads are issued in two batches, each all at once:
\* the two secrets first, and when both have answered every collection's
\* entries and the generated content, whichever of these answers first;
\* nothing is processed before all have answered.
C19_ReadsIssuedInTwoBatches ==
  \A i \in Invocations :
    /\ inv[i].pc = "idle" => inv[i].issued = {}
    /\ inv[i].pc = "secrets" =>
         inv[i].issued = {"githubSecret", "twitterSecret"}
    /\ inv[i].pc = "reads" => inv[i].issued = AllReads
    /\ (inv[i].pc = "secrets" \/ inv[i].failed = "secrets") =>
         /\ inv[i].read = <<>>
         /\ \A c \in CollectionNames(rev) : inv[i].tweets[c] = <<>>
    /\ Processed(i) => AllReadsAnswered(i) /\ inv[i].issued = AllReads
    /\ (inv[i].requests # <<>> \/ inv[i].logged # <<>>) => AllReadsAnswered(i)

\* C19 witness: in the second batch the generated content and one
\* collection have answered while another collection has not.
C19_Witness ==
  \E i \in Invocations :
    /\ inv[i].pc = "reads"
    /\ inv[i].read # <<>>
    /\ \E c \in CollectionNames(rev) : inv[i].tweets[c] # <<>>
    /\ \E c \in CollectionNames(rev) : inv[i].tweets[c] = <<>>

\* ------------------------------------------------ order of records

\* The positions, among the first k of pass r's timeline, of the tweets
\* that make a record, in timeline order.
RECURSIVE RecordPositions(_, _)
RecordPositions(r, k) ==
  IF k = 0 THEN <<>>
  ELSE RecordPositions(r, k - 1) \o (IF RecordPost(r, k) THEN <<k>> ELSE <<>>)

IsPrefix(a, b) == Len(a) <= Len(b) /\ SubSeq(b, 1, Len(a)) = a

\* The record is the one the document makes, continuations merged into it
\* aside.
RecordOf(transform, record, doc) ==
  /\ record.title = doc.title
  /\ record.subtitle = doc.sub
  /\ IF transform \in ContinuingTransforms
     THEN IsPrefix(DescOf(doc), record.descriptive)
     ELSE record.date = doc.date /\ record.link = doc.link.val
  /\ transform = "eventsTransform" => record.times = doc.times

\* C20: the records of a dataset are in the order of the timeline
\* positions of the primary tweets that made them: one record for each
\* tweet that parsed as a primary, none for a continuation or a failed
\* tweet.
C20_RecordsInTimelineOrder ==
  \A r \in runs :
    LET made == RecordPositions(r, pass[r].pos) IN
    /\ Len(pass[r].state.dataset) = Len(made)
    /\ \A j \in 1..Len(made) :
         RecordOf(pass[r].transform, pass[r].state.dataset[j],
                  Decoded(r, made[j]))

\* C20 witness: a pass is over whose first and last tweets made records
\* with different descriptive texts and whose middle tweet made none.
C20_Witness ==
  \E r \in runs :
    /\ pass[r].finalized
    /\ RecordPositions(r, pass[r].pos) = <<1, 3>>
    /\ pass[r].state.dataset[1].descriptive = <<"w">>
    /\ pass[r].state.dataset[2].descriptive = <<>>

\* ---------------------------------------------- the dry run option

\* The option texts JSON.parse gives a truthy value for.
TruthyOptionTexts == {"true", "1", "\"yes\"", "{}"}

\* The message carries an attributes.dryRun that parses to a truthy value.
CarriesTruthyDryRun(message) ==
  /\ message.kind = "object"
  /\ message.attributes.kind = "object"
  /\ message.attributes.dryRun # <<>>
  /\ message.attributes.dryRun[1] \in TruthyOptionTexts

\* C21: the dry run option is true only when the message carries an
\* attributes.dryRun that JSON-parses to a truthy value; without message,
\* attributes or dryRun, or when the parse fails, it is false, and the
\* invocation goes on to its reads either way.
C21_DryRunOnlyFromTruthyAttribute ==
  \A i \in Invocations :
    inv[i].pc # "idle" =>
      /\ inv[i].dryRun <=>
           (rev = "four" /\ CarriesTruthyDryRun(inv[i].message))
      /\ inv[i].pc \in {"secrets", "reads"}
      /\ inv[i].failed = "none"
      /\ inv[i].errorLog = <<>>

\* C21 witness: one invocation was triggered with a dryRun text that is no
\* JSON and has gone on to its reads with the option false; another was
\* triggered with the number 1 and has the option true.
C21_Witness ==
  \E i, j \in Invocations :
    /\ inv[i].pc = "reads"
    /\ inv[i].message.kind = "object"
    /\ inv[i].message.attributes.kind = "object"
    /\ inv[i].message.attributes.dryRun = <<"yes">>
    /\ ~inv[i].dryRun
    /\ inv[j].pc = "reads"
    /\ inv[j].message.kind = "object"
    /\ inv[j].message.attributes.kind = "object"
    /\ inv[j].message.attributes.dryRun = <<"1">>
    /\ inv[j].dryRun

\* ------------------------------------------ the order of the digests

\* The collections a write request's commit message names.
NamedInMessage(request) ==
  { request.message[k] : k \in 1..Len(request.message) }

\* C22: the digests array written lists the computed digests in the order
\* of the collections, the order the digests array read is destructured
\* in: position k of either array is collection k, so a write names
\* collection k as updated exactly when its digest differs from the one
\* read at position k, and an invocation that reads what another committed
\* compares, collection by collection, its raw texts with the other's.
C22_DigestPositionsDenoteCollections ==
  /\ \A i \in Invocations :
       inv[i].requests # <<>> =>
         /\ Len(inv[i].requests[1].content.base64.json.digests) =
              Len(Collections(rev))
         /\ \A k \in 1..Len(Collections(rev)) :
              /\ inv[i].requests[1].content.base64.json.digests[k] =
                   FreshDigest(i, k)
              /\ Collections(rev)[k] \in NamedInMessage(inv[i].requests[1])
                   <=> ReadDigest(i, k) # FreshDigest(i, k)
  /\ \A i, j \in Invocations :
       (i # j /\ ReadsCommitOf(j, i) /\ Processed(j) /\ ~inv[j].dryRun) =>
         /\ \A k \in 1..Len(Collections(rev)) :
              ReadDigest(j, k) = FreshDigest(i, k)
         /\ inv[j].requests # <<>> <=>
              \E k \in 1..Len(Collections(rev)) :
                FreshDigest(j, k) # FreshDigest(i, k)
         /\ inv[j].requests # <<>> =>
              NamedInMessage(inv[j].requests[1]) =
                { Collections(rev)[k] : k \in
                    { n \in 1..Len(Collections(rev)) :
                        FreshDigest(j, n) # FreshDigest(i, n) } }

\* C22 witness: an invocation committed a tweet of a collection that is
\* not the first, and another read that content with the same tweets and
\* wrote nothing, while both arrays hold the tweet's digest at the
\* collection's position.
C22_Witness ==
  \E i, j \in Invocations :
    /\ i # j
    /\ ReadsCommitOf(j, i)
    /\ Processed(j)
    /\ ~inv[j].dryRun
    /\ inv[j].requests = <<>>
    /\ \E k \in 2..Len(Collections(rev)) :
         /\ FreshDigest(i, k) # <<>>
         /\ ReadDigest(j, k) = FreshDigest(j, k)
         /\ NamedInMessage(inv[i].requests[1]) = {Collections(rev)[k]}

\* ------------------------------------------------- malformed posts

\* The tweet pass r just processed is a malformed YAML document.
MalformedPost(r) ==
  /\ pass[r].pos >= 1
  /\ Decoded(r, pass[r].pos).threw

\* The tweet before the one pass r just processed is a malformed document.
AfterMalformedPost(r) ==
  /\ pass[r].pos >= 2
  /\ Decoded(r, pass[r].pos - 1).threw

\* C23: a post that is a malformed YAML document leaves the records as
\* they were, appends exactly one 'Invalid YAML' descriptor carrying the
\* decoder's reason and mark, and the loop goes on: the post after it is
\* processed, a valid one becoming a record, and the digest is only taken
\* after the last post.
C23_MalformedPostLeavesRecords ==
  \A r \in runs :
    /\ MalformedPost(r) =>
         LET p == pass[r] IN
         /\ p.state.dataset = p.before.dataset
         /\ p.state.element = NoElement
         /\ Len(p.state.errors) = Len(p.before.errors) + 1
         /\ SubSeq(p.state.errors, 1, Len(p.before.errors)) = p.before.errors
         /\ \E d \in { p.state.errors[Len(p.state.errors)] } :
              /\ d.error = "Invalid YAML"
              /\ d.type = "YAMLException"
              /\ "mark" \in DOMAIN d
              /\ d.reason = Decoded(r, p.pos).error.reason
              /\ d.mark = Decoded(r, p.pos).error.mark
    /\ (AfterMalformedPost(r) /\ RecordPost(r, pass[r].pos)) =>
         /\ Len(pass[r].state.dataset) = Len(pass[r].before.dataset) + 1
         /\ pass[r].state.errors = pass[r].before.errors
         /\ pass[r].state.dataset[Len(pass[r].state.dataset)].title =
              Decoded(r, pass[r].pos).title
    /\ pass[r].finalized => pass[r].pos = Len(pass[r].timeline)

\* C23 witness: a record, then a malformed post, then a post that became
\* the second record.
C23_Witness ==
  \E r \in runs :
    /\ pass[r].pos = 3
    /\ AfterMalformedPost(r)
    /\ RecordPost(r, 3)
    /\ Len(pass[r].state.dataset) = 2
    /\ Len(pass[r].state.errors) = 1
    /\ pass[r].state.errors[1].error = "Invalid YAML"
    /\ pass[r].state.errors[1].mark.position = 1

\* --------------------------------------------- transforms never throw

\* The descriptor categories prepare gives.
ErrorCategories == {"Invalid YAML", "Invalid structure", "Unexpected error"}

\* The document the call of pass r decodes.
CallDocument(r) == yamlSafeLoad(pass[r].tweetText)

\* C24: every transform returns its triple of record, lastNonContinuation
\* and error descriptor for every text and every lastNonContinuation, and
\* never throws: a text that fails to decode, to destructure, to validate
\* or to merge comes back as an error descriptor of one of the three
\* categories, with a null record and the dataset untouched.
C24_TransformsAlwaysReturnTheTriple ==
  \A r \in runs :
    pass[r].returned # <<>> =>
      \E result \in { pass[r].returned[1] } :
        /\ DOMAIN result =
             {"element", "lastNonContinuation", "errorDescriptor", "heap"}
        /\ result.errorDescriptor # NoError =>
             /\ result.element = NoElement
             /\ result.lastNonContinuation = Null
             /\ result.heap = pass[r].heap
             /\ result.errorDescriptor.error \in ErrorCategories
        /\ CallDocument(r).threw =>
             /\ result.errorDescriptor # NoError
             /\ result.errorDescriptor.error = "Invalid YAML"
        /\ (~CallDocument(r).threw /\ CallDocument(r).kind = "undefined") =>
             /\ result.errorDescriptor # NoError
             /\ result.errorDescriptor.error = "Invalid structure"
        /\ (/\ pass[r].transform \in ContinuingTransforms
            /\ ContinuationPost(CallDocument(r))
            /\ pass[r].lastNonContinuationElement = Null) =>
             /\ result.errorDescriptor # NoError
             /\ result.errorDescriptor.error = "Unexpected error"
        /\ result.errorDescriptor = NoError =>
             \/ result.element # NoElement
             \/ result.lastNonContinuation = pass[r].lastNonContinuationElement

\* C24 witness: a continuation handed to a transform with no
\* lastNonContinuation came back as an error descriptor.
C24_Witness ==
  \E r \in runs :
    /\ pass[r].returned # <<>>
    /\ pass[r].transform \in ContinuingTransforms
    /\ ContinuationPost(CallDocument(r))
    /\ pass[r].lastNonContinuationElement = Null
    /\ pass[r].returned[1].element = NoElement
    /\ pass[r].returned[1].errorDescriptor.error = "Unexpected error"

\* --------------------------------------- the most recent primary

\* Sequence s ends with sequence t.
IsSuffix(t, s) ==
  /\ Len(t) <= Len(s)
  /\ SubSeq(s, Len(s) - Len(t) + 1, Len(s)) = t

\* The tweet pass r just processed is a primary of a continuing transform.
PrimaryProcessed(r) ==
  /\ pass[r].pos >= 1
  /\ pass[r].transform \in ContinuingTransforms
  /\ PrimaryPost(pass[r].transform, Decoded(r, pass[r].pos))

\* C25: a primary post becomes the record appended for it and the new
\* lastNonContinuation; so lastNonContinuation, when not null, is the
\* record appended last, and a continuation is merged into that record,
\* every other record staying as it was.
C25_ContinuationMergesIntoLatestPrimary ==
  \A r \in runs :
    /\ pass[r].state.lastNonContinuationElement # Null =>
         pass[r].state.lastNonContinuationElement = Len(pass[r].state.dataset)
    /\ PrimaryProcessed(r) =>
         /\ Len(pass[r].state.dataset) = Len(pass[r].before.dataset) + 1
         /\ pass[r].state.element # NoElement
         /\ pass[r].state.element.title = Decoded(r, pass[r].pos).title
         /\ pass[r].state.dataset[Len(pass[r].state.dataset)] =
              pass[r].state.element
         /\ pass[r].state.lastNonContinuationElement =
              Len(pass[r].state.dataset)
    /\ (pass[r].pos >= 1 /\ MergePost(r)) =>
         \E n \in { Len(pass[r].before.dataset) } :
           /\ n >= 1
           /\ Len(pass[r].state.dataset) = n
           /\ \A k \in 1..(n - 1) :
                pass[r].state.dataset[k] = pass[r].before.dataset[k]
           /\ pass[r].state.dataset[n].title = pass[r].before.dataset[n].title
           /\ IsPrefix(pass[r].before.dataset[n].descriptive,
                       pass[r].state.dataset[n].descriptive)
           /\ IsSuffix(DescOf(Decoded(r, pass[r].pos)),
                       pass[r].state.dataset[n].descriptive)
           /\ Len(pass[r].state.dataset[n].descriptive) >=
                Len(pass[r].before.dataset[n].descriptive)
                  + Len(DescOf(Decoded(r, pass[r].pos)))
           /\ pass[r].state.lastNonContinuationElement = n

\* C25 witness: two primaries with descriptive texts, then a continuation:
\* the second record has grown, the first is as its post made it.
C25_Witness ==
  \E r \in runs :
    /\ pass[r].pos = 3
    /\ MergePost(r)
    /\ Len(pass[r].state.dataset) = 2
    /\ PrimaryPost(pass[r].transform, Decoded(r, 1))
    /\ PrimaryPost(pass[r].transform, Decoded(r, 2))
    /\ pass[r].state.dataset[1].descriptive = DescOf(Decoded(r, 1))
    /\ DescOf(Decoded(r, 1)) # <<>>
    /\ pass[r].state.dataset[2].descriptive # DescOf(Decoded(r, 2))

\* ------------------------------------------ concurrent invocations

\* The tweets invocation i fetched for collection c.
Fetched(i, c) == inv[i].tweets[c][1]

\* Invocation j fetched collection c before invocation i did: tweets are
\* only ever added to a collection, and j saw fewer of them.
FetchedBefore(j, i, c) == Len(Fetched(j, c)) < Len(Fetched(i, c))

\* C26: the published content never regresses: of two commits, the later
\* one is not built from tweets fetched before the earlier one's were.
C26_ArtifactNeverRegresses ==
  \A a, b \in 1..Len(github.commits) :
    a < b =>
      \A c \in CollectionNames(rev) :
        ~FetchedBefore(github.commits[b], github.commits[a], c)

\* --------------------------------------------- after a failed post

\* Pass r has processed a primary, then a failed post, then a continuation.
PrimaryFailedContinuation(r) ==
  /\ pass[r].transform \in ContinuingTransforms
  /\ pass[r].pos >= 3
  /\ PrimaryPost(pass[r].transform, Decoded(r, pass[r].pos - 2))
  /\ ~PrimaryPost(pass[r].transform, Decoded(r, pass[r].pos - 1))
  /\ ~ContinuationPost(Decoded(r, pass[r].pos - 1))
  /\ ContinuationPost(Decoded(r, pass[r].pos))

\* C27: lastNonContinuation is null after every post that yields an error;
\* so in a sequence primary, failed post, continuation, the continuation
\* is not merged: it yields a 'Continuation tweet with no primary' error
\* and the primary's record keeps its descriptive text.
C27_NoLastPrimaryAfterFailedPost ==
  \A r \in runs :
    /\ (pass[r].pos >= 1 /\ pass[r].state.errorDescriptor # NoError) =>
         pass[r].state.lastNonContinuationElement = Null
    /\ (pass[r].pos >= 1 /\ FailedPost(r)) =>
         /\ pass[r].state.errorDescriptor # NoError
         /\ pass[r].state.lastNonContinuationElement = Null
    /\ PrimaryFailedContinuation(r) =>
         \E n \in { Len(pass[r].state.dataset) } :
           /\ n >= 1
           /\ pass[r].state.dataset = pass[r].before.dataset
           /\ pass[r].state.dataset[n].title =
                Decoded(r, pass[r].pos - 2).title
           /\ pass[r].state.dataset[n].descriptive =
                DescOf(Decoded(r, pass[r].pos - 2))
           /\ Len(pass[r].before.errors) >= 1
           /\ pass[r].state.errors =
                Append(pass[r].before.errors, pass[r].state.errorDescriptor)
           /\ pass[r].state.errorDescriptor # NoError
           /\ pass[r].state.errorDescriptor.error = "Unexpected error"
           /\ pass[r].state.errorDescriptor.reason =
                "Continuation tweet with no primary"
           /\ pass[r].state.errorDescriptor.tweetId =
                pass[r].timeline[pass[r].pos]

\* C27 witness: a primary with a descriptive text, a malformed post and a
\* continuation have been processed; the record is the primary's alone.
C27_Witness ==
  \E r \in runs :
    /\ PrimaryFailedContinuation(r)
    /\ Decoded(r, 2).threw
    /\ DescOf(Decoded(r, 1)) # <<>>
    /\ Len(pass[r].state.dataset) = 1
    /\ pass[r].state.dataset[1].descriptive = DescOf(Decoded(r, 1))

\* ------------------------------------------ runs of continuations

\* The descriptive texts of tweets j..k of pass r, end to end.
RECURSIVE DescsFrom(_, _, _)
DescsFrom(r, j, k) ==
  IF j > k THEN <<>>
  ELSE DescOf(Decoded(r, j)) \o DescsFrom(r, j + 1, k)

\* A text without its line breaks.
WithoutBreaks(text) == SelectSeq(text, LAMBDA token : token # "\n")

\* Tweet j of pass r is a primary and every tweet after it, up to the one
\* just processed, is a continuation.
ContinuationRun(r, j) ==
  /\ pass[r].transform \in ContinuingTransforms
  /\ j < pass[r].pos
  /\ PrimaryPost(pass[r].transform, Decoded(r, j))
  /\ \A k \in (j + 1)..pass[r].pos : ContinuationPost(Decoded(r, k))

\* C28: a merge leaves lastNonContinuation with the same primary, so the
\* continuations that follow a primary are all merged into its record in
\* timeline order: the record's descriptive is the primary's text and then
\* each continuation's, separators aside; the dataset gains no record and
\* no error is produced for any of them.
C28_ConsecutiveContinuationsAllMerge ==
  \A r \in runs :
    \A j \in 1..Len(pass[r].timeline) :
      ContinuationRun(r, j) =>
        \E n \in { RecordsBefore(r, j) + 1 } :
          /\ Len(pass[r].state.dataset) = n
          /\ pass[r].state.lastNonContinuationElement = n
          /\ pass[r].state.element = NoElement
          /\ pass[r].state.errorDescriptor = NoError
          /\ pass[r].state.dataset[n].title = Decoded(r, j).title
          /\ WithoutBreaks(pass[r].state.dataset[n].descriptive) =
               DescsFrom(r, j, pass[r].pos)
          /\ pass[r].state.errors =
               ProcessCollection(pass[r].transform,
                                 SubSeq(pass[r].timeline, 1, j - 1),
                                 pass[r].tweets).errors

\* C28 witness: a primary with a descriptive text and two different
\* continuations after it have been processed.
C28_Witness ==
  \E r \in runs :
    /\ ContinuationRun(r, 1)
    /\ pass[r].pos = 3
    /\ DescOf(Decoded(r, 1)) # <<>>
    /\ DescOf(Decoded(r, 2)) # DescOf(Decoded(r, 3))
    /\ Len(pass[r].state.dataset) = 1
    /\ pass[r].state.errors = <<>>

\* ------------------------------------------------------ bulletins

BulletinTransforms == {"bulletinsTransform", "bulletinsTransformIndex"}

\* C29: bulletins have no continuations: every post of a bulletins pass
\* yields exactly one of a record and an error descriptor,
\* lastNonContinuation is null throughout, a record is never changed once
\* appended, and a post without title but with descriptive text is an
\* 'Invalid structure' error, not a merge.
C29_BulletinsHaveNoContinuations ==
  \A r \in runs :
    pass[r].transform \in BulletinTransforms =>
      /\ pass[r].state.lastNonContinuationElement = Null
      /\ Len(pass[r].state.dataset) + Len(pass[r].state.errors) = pass[r].pos
      /\ IsPrefix(pass[r].before.dataset, pass[r].state.dataset)
      /\ IsPrefix(pass[r].before.errors, pass[r].state.errors)
      /\ pass[r].pos >= 1 =>
           /\ pass[r].state.element = NoElement
                <=> pass[r].state.errorDescriptor # NoError
           /\ ContinuationPost(Decoded(r, pass[r].pos)) =>
                /\ pass[r].state.dataset = pass[r].before.dataset
                /\ pass[r].state.element = NoElement
                /\ pass[r].state.errorDescriptor # NoError
                /\ pass[r].state.errorDescriptor.error = "Invalid structure"
                /\ pass[r].state.errorDescriptor.type = "TypeError"

\* C29 witness: a bulletin became a record and the post after it, without
\* title and with descriptive text, became an error; the record is as it
\* was appended.
C29_Witness ==
  \E r \in runs :
    /\ pass[r].transform \in BulletinTransforms
    /\ pass[r].pos = 2
    /\ BulletinPost(Decoded(r, 1))
    /\ ContinuationPost(Decoded(r, 2))
    /\ Len(pass[r].state.dataset) = 1
    /\ pass[r].state.dataset[1].title = Decoded(r, 1).title
    /\ pass[r].state.dataset[1].link = Decoded(r, 1).link.val
    /\ Len(pass[r].state.errors) = 1
    /\ pass[r].state.errors[1].error = "Invalid structure"

\* ------------------------------------------------------ termination

\* The ways an invocation ends with its promise resolved.
Outcomes == {"committed", "dryRun", "noUpdates", "error"}

\* Invocation i has ended in exactly one of the four outcomes, and what it
\* did is that outcome's alone: a commit, a logged content, nothing, or a
\* logged error.
Terminated(i) ==
  /\ inv[i].pc = "done"
  /\ inv[i].outcome \in Outcomes
  /\ inv[i].outcome = "committed" <=> i \in Committers
  /\ inv[i].outcome = "dryRun"    <=> inv[i].logged # <<>>
  /\ inv[i].outcome = "error"     <=> inv[i].errorLog # <<>>
  /\ inv[i].outcome = "noUpdates" <=>
       (i \notin Committers /\ inv[i].logged = <<>> /\ inv[i].errorLog = <<>>)
  /\ Len(inv[i].logged) + Len(inv[i].errorLog) <= 1

\* C30: every invocation that is triggered terminates, whatever the
\* timelines and whatever its collaborators answer, in exactly one of:
\* write committed, dry run content logged, no collection updates, error
\* reported by the catch; in each the agent returns and its promise
\* resolves.
C30_EveryInvocationTerminates ==
  \A i \in Invocations : (inv[i].pc # "idle") ~> Terminated(i)

\* C30 witness: an invocation has ended with the error of a write that
\* was not accepted, reported by its catch.
C30_Witness ==
  \E i \in Invocations :
    /\ Terminated(i)
    /\ inv[i].outcome = "error"
    /\ inv[i].failed = "write"
    /\ inv[i].requests # <<>>

\* ------------------------------------------------- the store write

\* What the loop makes of the collection at position k as invocation i
\* fetched it.
Computed(i, k) ==
  ProcessCollection(TransformOf(rev, Collections(rev)[k]),
                    TimelineOf(Fetched(i, Collections(rev)[k])),
                    Fetched(i, Collections(rev)[k]))

\* The generated content invocation i's write carries.
Written(i) == inv[i].requests[1].content.base64.json

\* C31: an invocation issues at most one write, and only once every
\* collection is fetched and processed and its digest taken; the content
\* written holds the dataset, the digest and the error list of every
\* collection, those whose digest did not change included.
C31_OneWriteOfTheWholeContent ==
  \A i \in Invocations :
    /\ Len(inv[i].requests) <= 1
    /\ inv[i].requests # <<>> =>
         /\ inv[i].pc \in {"writing", "done"}
         /\ inv[i].read # <<>>
         /\ \A c \in CollectionNames(rev) : inv[i].tweets[c] # <<>>
         /\ Len(Written(i).datasets) = Len(Collections(rev))
         /\ Len(Written(i).digests) = Len(Collections(rev))
         /\ Len(Written(i).errors) = Len(Collections(rev))
         /\ \A k \in 1..Len(Collections(rev)) :
              /\ Written(i).datasets[k] = Computed(i, k).dataset
              /\ Written(i).errors[k] = Computed(i, k).errors
              /\ Written(i).digests[k] = FreshDigest(i, k)
    /\ inv[i].outcome = "committed" =>
         /\ inv[i].requests # <<>>
         /\ github.file = inv[i].requests[1].content

\* C31 witness: a write is out whose content holds a record of a
\* collection whose digest did not change and an error of one whose
\* digest did.
C31_Witness ==
  \E i \in Invocations :
    /\ inv[i].requests # <<>>
    /\ \E j, k \in 1..Len(Collections(rev)) :
         /\ ReadDigest(i, j) = FreshDigest(i, j)
         /\ Written(i).datasets[j] # <<>>
         /\ ReadDigest(i, k) # FreshDigest(i, k)
         /\ Written(i).errors[k] # <<>>

\* The position of a collection in the fixed order.
PositionOf(name) ==
  CHOOSE k \in 1..Len(Collections(rev)) : Collections(rev)[k] = name

\* C32: the commit message of every write names exactly the collections
\* whose computed digest differs from the published digest at the same
\* position, in the order of the collections; so it names at least one.
C32_MessageNamesTheUpdatedCollections ==
  \A i \in Invocations :
    inv[i].requests # <<>> =>
      \E message \in { inv[i].requests[1].message } :
        /\ Len(message) >= 1
        /\ \A n \in 1..Len(message) : message[n] \in CollectionNames(rev)
        /\ \A k \in 1..Len(Collections(rev)) :
             (\E n \in 1..Len(message) : message[n] = Collections(rev)[k])
               <=> ReadDigest(i, k) # FreshDigest(i, k)
        /\ \A m, n \in 1..Len(message) :
             m < n => PositionOf(message[m]) < PositionOf(message[n])

\* C32 witness: a write names two collections and leaves out one that has
\* a tweet.
C32_Witness ==
  \E i \in Invocations :
    /\ inv[i].requests # <<>>
    /\ Len(inv[i].requests[1].message) = 2
    /\ FreshDigest(i, 1) = ReadDigest(i, 1)

\* ------------------------------------- collections are independent

\* What the loop makes of collection r taken alone.
Alone(r) ==
  ProcessCollection(pass[r].transform, pass[r].timeline, pass[r].tweets)

\* C33: the records, the errors and the digest of a collection depend only
\* on its own timeline and tweets: they are what the loop makes of the
\* collection taken alone, whatever the other collections hold, and two
\* collections with the same transform and the same tweets come out the
\* same.
C33_CollectionsAreIndependent ==
  /\ \A r \in runs :
       /\ (pass[r].pos = Len(pass[r].timeline) /\ pass[r].pos >= 1) =>
            /\ pass[r].state.dataset = Alone(r).dataset
            /\ pass[r].state.errors = Alone(r).errors
            /\ pass[r].state.hash = Alone(r).hash
       /\ pass[r].finalized => pass[r].digest = HashDigest(Alone(r).hash)
  /\ \A q, r \in runs :
       (/\ pass[q].finalized
        /\ pass[r].finalized
        /\ pass[q].transform = pass[r].transform
        /\ pass[q].tweets = pass[r].tweets)
       => /\ pass[q].state.dataset = pass[r].state.dataset
          /\ pass[q].state.errors = pass[r].state.errors
          /\ pass[q].digest = pass[r].digest

\* C33 witness: two collections with the same transform and the same
\* tweets came out the same, the one after an empty collection and the
\* other after one with a tweet.
C33_Witness ==
  \E q, r \in runs :
    /\ 1 < q
    /\ q < r
    /\ pass[q].finalized
    /\ pass[r].finalized
    /\ pass[q].transform = pass[r].transform
    /\ pass[q].tweets = pass[r].tweets
    /\ pass[q].tweets # <<>>
    /\ pass[q - 1].tweets = <<>>
    /\ pass[q].digest = pass[r].digest
    /\ pass[q].state.dataset = pass[r].state.dataset
    /\ pass[q].state.dataset # <<>>


\* ------------------------------------------------ unreadable timeline entries

MaxLookupTweets == 2

\* The posts a lookup table may answer a timeline entry with: a post, no
\* post at all, and a post without its list of embedded links.
LookupPool ==
  { Tweet(<<"T">>, <<>>), NoTweet, TweetWithoutLinks(<<"T">>) }

\* The collections as the invocation finds them: any timelines of at most
\* MaxLookupTweets entries in all.
LookupTimelines(revision) ==
  { tables \in [CollectionNames(revision) ->
                  TweetTables(LookupPool, MaxLookupTweets)] :
      TweetsIn(revision, tables, Len(Collections(revision)))
        <= MaxLookupTweets }

InitLookup ==
  /\ runs = {}
  /\ pass = <<>>
  /\ rev \in Revisions
  /\ twitter \in LookupTimelines(rev)
  /\ github = [file |-> InitialFile(rev), commits |-> <<>>]
  /\ inv = [i \in Invocations |-> InvocationStart(rev)]

\* One invocation over collections some of whose entries cannot be read.
SpecLookup == InitLookup /\ [][NextLive]_vars

\* Collection c, as invocation i fetched it, holds an entry the inner loop
\* cannot read.
Unreadable(i, c) ==
  /\ inv[i].tweets[c] # <<>>
  /\ \E k \in 1..Len(Fetched(i, c)) : LookupThrows(Fetched(i, c)[k])

\* C34: an invocation that fetched a timeline entry with no post in the
\* lookup table, or with a post that lacks the list of embedded links, and
\* went on to process its collections ends in the agent's catch: the error
\* is logged once, no content is written or logged, so no per-post error is
\* recorded either, and the published file stays as it was.
C34_UnreadableEntryAbortsTheInvocation ==
  \A i \in Invocations :
    /\ (inv[i].pc \in {"writing", "done"}
        /\ \E c \in CollectionNames(rev) : Unreadable(i, c)) =>
         /\ inv[i].pc = "done"
         /\ inv[i].outcome = "error"
         /\ inv[i].failed = "lookup"
         /\ inv[i].errorLog = <<"lookup">>
         /\ inv[i].requests = <<>>
         /\ inv[i].logged = <<>>
         /\ github = [file |-> InitialFile(rev), commits |-> <<>>]
    /\ inv[i].failed = "lookup" =>
         \E c \in CollectionNames(rev) : Unreadable(i, c)

\* C34 witness: an invocation without dry run ended on an unreadable entry
\* of one collection while the digest of another collection, all of whose
\* entries are readable, differs from the published one.
C34_Witness ==
  \E i \in Invocations :
    /\ inv[i].pc = "done"
    /\ ~inv[i].dryRun
    /\ inv[i].failed = "lookup"
    /\ \E j, k \in 1..Len(Collections(rev)) :
         /\ Unreadable(i, Collections(rev)[j])
         /\ ~Unreadable(i, Collections(rev)[k])
         /\ FreshDigest(i, k) # ReadDigest(i, k)

\* ------------------------------------------- the line-oriented revision

\* A post text of the line-oriented revision is a sequence of tokens: "\n"
\* ends a line; "..." is the text of TWEET_CONTINUATION; "t" is plain text;
\* "@" is a time segment 'day @ time'; "d" is 'date - title'; "u" is an
\* absolute URL; "r" is text with a carriage return amid it. The tokens
\* carry no white space around them.
LegacyNewline == "\n"

\* String.prototype.split('\n'): the lines of a text, at least one.
RECURSIVE SplitLines(_)
SplitLines(text) ==
  IF \A k \in 1..Len(text) : text[k] # LegacyNewline THEN <<text>>
  ELSE LET i == CHOOSE k \in 1..Len(text) :
                  /\ text[k] = LegacyNewline
                  /\ \A j \in 1..(k - 1) : text[j] # LegacyNewline
       IN  <<SubSeq(text, 1, i - 1)>> \o SplitLines(SubSeq(text, i + 1, Len(text)))

\* process.env.TWEET_CONTINUATION
tweetContinuationLine == <<"...">>

\* line.match(/^\s*(.*?)\s*$/) is an array: '.' matches no line terminator
\* and '$' only the end of the text, so a carriage return between two
\* pieces of text leaves no match and match returns null.
TrimMatches(line) == \A k \in 1..Len(line) : line[k] # "r"

\* The lines of rawLines that are not empty once trimmed.
NonEmptyLines(rawLines) == SelectSeq(rawLines, LAMBDA line : line # <<>>)

\* The { day, time, location } records of a times line: one per segment
\* that holds 'day @ time'; none of an absent or empty times line.
LegacyTimes(timesLine) == SelectSeq(timesLine, LAMBDA segment : segment = "@")

\* A transform of the line-oriented revision threw.
LegacyThrown == [threw |-> TRUE]

\* A transform of the line-oriented revision returned: the element
\* (NoElement for null), the dataset index of the last non-continuation element (Null
\* for null or undefined) and the dataset, whose last event a continuation
\* appends to.
LegacyReturned(element, last, dataset) ==
  [threw |-> FALSE, element |-> element, last |-> last,
   dataset |-> dataset]

\* eventsTransform of the line-oriented revision. The destructuring of a
\* match that is null throws a TypeError.
eventsTransformLegacy(tweetText, lastNonContinuationEvent, dataset) ==
  LET lines           == SplitLines(tweetText)
      firstLine       == Head(lines)
      subsequentLines == Tail(lines)
  IN  IF firstLine # tweetContinuationLine
      THEN LET timesLine        == IF subsequentLines = <<>> THEN <<>>
                                   ELSE Head(subsequentLines)
               descriptiveLines == IF subsequentLines = <<>> THEN <<>>
                                   ELSE Tail(subsequentLines)
               event == [title       |-> firstLine,
                         color       |-> Null,
                         times       |-> LegacyTimes(timesLine),
                         descriptive |-> NonEmptyLines(descriptiveLines)]
           IN  IF \/ ~TrimMatches(firstLine)
                  \/ \E k \in 1..Len(descriptiveLines) :
                       ~TrimMatches(descriptiveLines[k])
               THEN LegacyThrown
               ELSE IF event.title # <<>> /\ event.times # <<>>
                    THEN LegacyReturned(event, Len(dataset) + 1, dataset)
                    ELSE LegacyReturned(NoElement, Null, dataset)
      ELSE IF lastNonContinuationEvent # Null
           THEN IF \E k \in 1..Len(subsequentLines) :
                     ~TrimMatches(subsequentLines[k])
                THEN LegacyThrown
                ELSE LegacyReturned(NoElement, lastNonContinuationEvent,
                       [dataset EXCEPT
                          ![lastNonContinuationEvent].descriptive =
                             @ \o NonEmptyLines(subsequentLines)])
           ELSE LegacyReturned(NoElement, Null, dataset)

\* The { title, link } records of the lines after the link line: the lines
\* that are not empty, two by two.
RECURSIVE LegacyInserts(_)
LegacyInserts(lines) ==
  IF Len(lines) < 2 THEN <<>>
  ELSE <<[title |-> lines[1], link |-> lines[2]]>>
         \o LegacyInserts(SubSeq(lines, 3, Len(lines)))

\* bulletinsTransform of the line-oriented revision. The link line of a
\* text of one line is undefined, and bulletinLinkLine.match throws a
\* TypeError before the date and the title are looked at; so does the
\* destructuring of a match that is null. The one-element array it returns
\* leaves lastNonContinuationElement undefined.
bulletinsTransformLegacy(tweetText, dataset) ==
  LET lines                 == SplitLines(tweetText)
      bulletinDateTitleLine == Head(lines)
      rest                  == Tail(lines)
  IN  IF rest = <<>> THEN LegacyThrown
      ELSE LET bulletinLinkLine == Head(rest)
               subsequentLines  == Tail(rest)
               dated == bulletinDateTitleLine = <<"d">>
           IN  IF ~TrimMatches(bulletinLinkLine) THEN LegacyThrown
               ELSE IF ~dated THEN LegacyReturned(NoElement, Null, dataset)
               ELSE IF bulletinLinkLine # <<"u">>
                    THEN LegacyReturned(NoElement, Null, dataset)
               ELSE IF \E k \in 1..Len(subsequentLines) :
                         ~TrimMatches(subsequentLines[k])
                    THEN LegacyThrown
               ELSE LegacyReturned(
                      [date    |-> bulletinDateTitleLine,
                       title   |-> bulletinDateTitleLine,
                       link    |-> bulletinLinkLine,
                       inserts |-> LegacyInserts(NonEmptyLines(subsequentLines))],
                      Null, dataset)

\* The transform the loop of the line-oriented revision gives a collection.
LegacyTransformOf(collection) ==
  IF collection = "bulletins" THEN "bulletinsTransform" ELSE "eventsTransform"

LegacyTransform(transform, tweetText, lastNonContinuationElement, dataset) ==
  IF transform = "bulletinsTransform"
  THEN bulletinsTransformLegacy(tweetText, dataset)
  ELSE eventsTransformLegacy(tweetText, lastNonContinuationElement, dataset)

\* One iteration of the inner loop of the line-oriented revision: the
\* transform is called outside any try of its own, the element is pushed
\* if there is one, and the hash is fed the raw text.
LegacyProcessTweet(p, tweet) ==
  LET returned == LegacyTransform(p.transform,
                                  ExpandLinks(tweet.full_text, tweet.urls),
                                  p.last, p.dataset)
  IN  IF returned.threw THEN [p EXCEPT !.pos = @ + 1, !.threw = TRUE]
      ELSE [p EXCEPT
              !.pos     = @ + 1,
              !.skipped = @ + (IF returned.element = NoElement THEN 1 ELSE 0),
              !.dataset = IF returned.element # NoElement
                          THEN Append(returned.dataset, returned.element)
                          ELSE returned.dataset,
              !.last    = returned.last,
              !.hash    = HashUpdate(@, tweet.full_text)]

\* A collection of the line-oriented revision when the agent's loop starts.
LegacyPassStart(transform, tweets) ==
  [transform |-> transform,
   tweets    |-> tweets,
   pos       |-> 0,
   skipped   |-> 0,
   dataset   |-> <<>>,
   last      |-> Null,
   hash      |-> createHash,
   threw     |-> FALSE]

MaxLegacyTweets == 2

\* The posts of the collections of the line-oriented revision: an event, a
\* continuation, an event without times, an event with a carriage return
\* in a descriptive line, a bulletin, a bulletin of one line, a bulletin
\* whose link is no URL.
LegacyPool ==
  { Tweet(<<"t", "\n", "@">>, <<>>),
    Tweet(<<"...", "\n", "t">>, <<>>),
    Tweet(<<"t">>, <<>>),
    Tweet(<<"t", "\n", "@", "\n", "r">>, <<>>),
    Tweet(<<"d", "\n", "u", "\n", "t", "\n", "u">>, <<>>),
    Tweet(<<"d">>, <<>>),
    Tweet(<<"d", "\n", "t">>, <<>>) }

\* The collections as the invocation read them: any timelines of at most
\* MaxLegacyTweets posts in all.
LegacyTimelines ==
  { tables \in [CollectionNames("legacy") ->
                  TweetTables(LegacyPool, MaxLegacyTweets)] :
      TweetsIn("legacy", tables, Len(Collections("legacy")))
        <= MaxLegacyTweets }

\* The generated content file of the line-oriented revision before any
\* run: no post in any collection.
LegacyInitialFile ==
  Base64Encode(JsonStringify(
    [regularEvents |-> <<>>, specialEvents |-> <<>>, bulletins |-> <<>>,
     digests |-> [k \in 1..3 |-> HashDigest(createHash)]]))

\* The invocation of the line-oriented revision once its reads are in.
LegacyInvocationStart ==
  [pc       |-> "loop",
   read     |-> [content |-> LegacyInitialFile,
                 sha     |-> BlobSha(LegacyInitialFile)],
   requests |-> <<>>,
   errorLog |-> <<>>,
   outcome  |-> "none"]

\* The reads of the invocation are in: the three collections and the
\* generated content of the last update.
InitLegacy ==
  /\ rev = "legacy"
  /\ twitter \in LegacyTimelines
  /\ github = [file |-> LegacyInitialFile, commits |-> <<>>]
  /\ inv = LegacyInvocationStart
  /\ runs = 1..Len(Collections("legacy"))
  /\ pass = [r \in 1..Len(Collections("legacy")) |->
               LegacyPassStart(LegacyTransformOf(Collections("legacy")[r]),
                               twitter[Collections("legacy")[r]])]

\* One iteration of the inner loop; what a transform throws reaches the
\* catch of the agent, which logs it and ends the invocation.
LegacyNextTweet(r) ==
  /\ inv.pc = "loop"
  /\ \A q \in runs : q < r => pass[q].pos = Len(pass[q].tweets)
  /\ pass[r].pos < Len(pass[r].tweets)
  /\ \E next \in { LegacyProcessTweet(pass[r], pass[r].tweets[pass[r].pos + 1]) } :
       /\ pass' = [pass EXCEPT ![r] = next]
       /\ inv' = IF next.threw
                 THEN [inv EXCEPT !.pc = "done", !.outcome = "error",
                                  !.errorLog = Append(@, "TypeError")]
                 ELSE inv
  /\ UNCHANGED <<runs, rev, twitter, github>>

\* The digests of the loop's hashes, by position.
LegacyComputedDigests == [k \in 1..Len(pass) |-> HashDigest(pass[k].hash)]

\* After the loops: the digests are compared with the published ones and,
\* if one differs, the datasets and digests are written.
LegacyGenerate ==
  /\ inv.pc = "loop"
  /\ \A r \in runs : pass[r].pos = Len(pass[r].tweets)
  /\ \E previous \in
          { PreviousDigests(JsonParse(Base64Decode(inv.read.content)), 3) } :
     \E computed \in { LegacyComputedDigests } :
       IF \E k \in 1..3 : previous[k] # computed[k]
       THEN inv' = [inv EXCEPT
              !.pc = "writing",
              !.requests = Append(@,
                [message |-> UpdatedCollections("legacy",
                                                Updated(previous, computed), 1),
                 content |-> Base64Encode(JsonStringify(
                   [regularEvents |-> pass[1].dataset,
                    specialEvents |-> pass[2].dataset,
                    bulletins     |-> pass[3].dataset,
                    digests       |-> computed])),
                 sha     |-> inv.read.sha])]
       ELSE inv' = [inv EXCEPT !.pc = "done", !.outcome = "noUpdates"]
  /\ UNCHANGED <<passVars, rev, twitter, github>>

\* createOrUpdateFile answers: the content is committed.
LegacyFileCommitted ==
  /\ inv.pc = "writing"
  /\ inv.requests[1].sha = BlobSha(github.file)
  /\ github' = [file    |-> inv.requests[1].content,
                commits |-> Append(github.commits, 1)]
  /\ inv' = [inv EXCEPT !.pc = "done", !.outcome = "committed"]
  /\ UNCHANGED <<passVars, rev, twitter>>

\* createOrUpdateFile throws: the catch logs the error.
LegacyFileUnavailable ==
  /\ inv.pc = "writing"
  /\ inv' = [inv EXCEPT !.pc = "done", !.outcome = "error",
                        !.errorLog = Append(@, "write")]
  /\ UNCHANGED <<passVars, rev, twitter, github>>

NextLegacy ==
  \/ \E r \in runs : LegacyNextTweet(r)
  \/ LegacyGenerate
  \/ LegacyFileCommitted
  \/ LegacyFileUnavailable

\* One invocation of the line-oriented revision, from the answers of its
\* reads on.
SpecLegacy == InitLegacy /\ [][NextLegacy]_vars

\* C35: in the line-oriented revision no post halts the processing: the
\* transform returns for every post text, a bulletin of one line included,
\* an invalid post is skipped with no record, and the posts and
\* collections after it are processed, so that the invocation never ends
\* in the catch on account of a post.
C35_LegacyInvalidPostNeverHalts ==
  /\ \A r \in runs :
       /\ ~pass[r].threw
       /\ Len(pass[r].dataset) + pass[r].skipped = pass[r].pos
  /\ inv.pc \in {"writing", "done"} =>
       \A r \in runs : pass[r].pos = Len(pass[r].tweets)

====
